---------------------------- MODULE Spec2Model ----------------------------
(***************************************************************************)
(* A model of the risk-bounded position-sizing core of the trading system: *)
(* RiskConfig, PositionManager, the TradingEngine strategy cycle that      *)
(* drives a PositionManager, BacktestEngine.run, which owns one, the       *)
(* metrics of the BacktestResult a run returns, the Scheduler, the         *)
(* AlpacaBroker's order calls, and TradingEngine.start and stop with the   *)
(* loop threads they start.                                                *)
(*                                                                         *)
(* Numbers.  The program computes with Python floats and ints.  The model  *)
(* computes with exact rationals <<n, d>> (d > 0, lowest terms), so that   *)
(* equality of two numbers is equality of their representations.  Float    *)
(* rounding, overflow, inf and nan are outside the model.                  *)
(***************************************************************************)
EXTENDS Integers, Sequences, FiniteSets, TLC

VARIABLES
    owner,           \* who holds the modelled objects and calls them
    config,          \* PositionManager.config: the RiskConfig object
    open_positions,  \* PositionManager.open_positions: list of Position dicts
    daily_pnl,       \* PositionManager.daily_pnl
    ret,             \* the last call made: what was called, with what, and what it gave
    sc,              \* the StrategyConfig registered with the TradingEngine
    trade_log,       \* the rows TradeLogger.log_trade has written
    bt,              \* the BacktestEngine: its fields and the locals of a run() in progress
    result,          \* the BacktestResult client code has built from a ledger and a curve
    broker,          \* the AlpacaBroker, the account it trades and a buy() or sell() in progress
    engine,          \* the TradingEngine that is started and stopped, and its loop threads
    registry         \* TradingEngine.strategies and the objects the configs refer to

vars == <<owner, config, open_positions, daily_pnl, ret, sc, trade_log, bt, result, broker, engine,
          registry>>

None == "None"

-----------------------------------------------------------------------------
(* Exact rational arithmetic standing for Python's float arithmetic.       *)

Abs(x) == IF x < 0 THEN -x ELSE x

RECURSIVE GCD(_, _)
GCD(a, b) == IF b = 0 THEN a ELSE GCD(b, a % b)

\* n/d in lowest terms with a positive denominator (d # 0).
Rat(n, d) ==
    LET s == IF d < 0 THEN -1 ELSE 1
        g == GCD(Abs(n), Abs(d))
    IN  <<(s * n) \div g, (s * d) \div g>>

Num(n) == <<n, 1>>

\* Common factors are divided out before the products are formed, which
\* keeps the intermediate integers small.
RAdd(a, b) ==
    LET g == GCD(a[2], b[2])
    IN  Rat(a[1] * (b[2] \div g) + b[1] * (a[2] \div g), (a[2] \div g) * b[2])
RSub(a, b) == RAdd(a, <<-b[1], b[2]>>)
RMul(a, b) ==
    LET g == GCD(Abs(a[1]), b[2])
        h == GCD(Abs(b[1]), a[2])
    IN  Rat((a[1] \div g) * (b[1] \div h), (a[2] \div h) * (b[2] \div g))
RDiv(a, b) ==
    RMul(a, IF b[1] < 0 THEN <<-b[2], -b[1]>> ELSE <<b[2], b[1]>>)
RNeg(a) == <<-a[1], a[2]>>
RLt(a, b) ==
    LET g == GCD(a[2], b[2])
    IN  a[1] * (b[2] \div g) < b[1] * (a[2] \div g)
RLe(a, b) ==
    LET g == GCD(a[2], b[2])
    IN  a[1] * (b[2] \div g) <= b[1] * (a[2] \div g)
RGe(a, b) == RLe(b, a)
RGt(a, b) == RLt(b, a)
Zero == Num(0)
One == Num(1)

\* Python's int(x) on a float: truncation toward zero.
PyInt(a) ==
    IF a[1] >= 0 THEN Num(a[1] \div a[2]) ELSE Num(-((-a[1]) \div a[2]))

\* Python's min(a, b): b only when b < a.
PyMin(a, b) == IF RLt(b, a) THEN b ELSE a

\* math.floor, the rounding the specification's sizing formula names.
Floor(a) == Num(a[1] \div a[2])

-----------------------------------------------------------------------------
(* RiskConfig                                                              *)

\* RiskConfig.__init__: stores its six arguments as given.  It has no check
\* and no raise statement, so every call returns an object.
RiskConfig(rpt, slp, tpp, mps, mpo, mdl) ==
    [risk_per_trade     |-> rpt,
     stop_loss_pct      |-> slp,
     take_profit_pct    |-> tpp,
     max_position_size  |-> mps,
     max_positions_open |-> mpo,
     max_daily_loss_pct |-> mdl]

\* The argument tuples RiskConfig is constructed with in the model: the
\* defaults of __init__; a fractional max_position_size (as the engine test's
\* crypto configuration has) with a single open position allowed; a small
\* max_position_size with two positions allowed; and one whose stop_loss_pct
\* and take_profit_pct are 0.
ConfigArgs ==
    { <<Rat(2, 100), Rat(5, 100), Rat(10, 100), Num(100), Num(3), Rat(5, 100)>>,
      <<Rat(2, 100), Rat(5, 100), Rat(10, 100), Rat(1, 10), Num(1), Rat(5, 100)>>,
      <<Rat(2, 100), Rat(5, 100), Rat(10, 100), Num(5), Num(2), Rat(5, 100)>>,
      <<Rat(2, 100), Zero, Zero, Num(100), Num(2), Rat(5, 100)>> }

-----------------------------------------------------------------------------
(* PositionManager: the methods as functions of the object's fields        *)

\* The sizing rule without the stop distance, equity * risk / price, in place
\* of the rule the method implements.
calculate_position_size_by_price(cfg, account_equity, entry_price) ==
    IF RLe(RMul(entry_price, cfg.stop_loss_pct), Zero)
    THEN Zero
    ELSE PyMin(PyInt(RDiv(RMul(account_equity, cfg.risk_per_trade), entry_price)),
               cfg.max_position_size)

\* calculate_position_size(account_equity, entry_price)
calculate_position_size(cfg, account_equity, entry_price) ==
    LET stop_loss_distance == RMul(entry_price, cfg.stop_loss_pct)
        risk_amount == RMul(account_equity, cfg.risk_per_trade)
    IN  IF RLe(stop_loss_distance, Zero)
        THEN Zero
        ELSE PyMin(PyInt(RDiv(risk_amount, stop_loss_distance)),
                   cfg.max_position_size)

\* The parameters calculate_position_size binds besides self.  A call that
\* passes any other keyword does not reach the body: Python raises TypeError.
calculate_position_size_params == {"account_equity", "entry_price"}

\* A keyword call calculate_position_size(**kwargs) on a PositionManager.
call_calculate_position_size(cfg, kwargs) ==
    IF DOMAIN kwargs = calculate_position_size_params
    THEN [raised |-> None,
          value  |-> calculate_position_size(cfg, kwargs.account_equity,
                                             kwargs.entry_price)]
    ELSE [raised |-> "TypeError", value |-> None]

\* The Position dict open_position builds.
new_position(cfg, symbol, entry_price, qty, entry_date) ==
    [symbol            |-> symbol,
     entry_price       |-> entry_price,
     entry_date        |-> entry_date,
     qty               |-> qty,
     stop_loss_price   |-> RMul(entry_price, RSub(One, cfg.stop_loss_pct)),
     take_profit_price |-> RMul(entry_price, RAdd(One, cfg.take_profit_pct))]

get_num_open_positions(positions) == Num(Len(positions))

\* The position-count test written with > in place of >=.
can_open_position_off_by_one(cfg, positions, pnl, account_equity) ==
    IF RGt(Num(Len(positions)), cfg.max_positions_open)
    THEN FALSE
    ELSE LET max_daily_loss == RNeg(RMul(account_equity, cfg.max_daily_loss_pct))
         IN  IF RLt(pnl, max_daily_loss) THEN FALSE ELSE TRUE

\* can_open_position(account_equity)
can_open_position(cfg, positions, pnl, account_equity) ==
    IF RGe(get_num_open_positions(positions), cfg.max_positions_open)
    THEN FALSE
    ELSE LET max_daily_loss == RNeg(RMul(account_equity, cfg.max_daily_loss_pct))
         IN  IF RLt(pnl, max_daily_loss) THEN FALSE ELSE TRUE

\* check_position_exit(symbol, current_price): the loop over open_positions
\* returns at the first matching position that is at or beyond a limit and
\* goes on to the next position otherwise.
RECURSIVE check_position_exit(_, _, _)
check_position_exit(positions, symbol, current_price) ==
    IF positions = <<>>
    THEN None
    ELSE LET pos == Head(positions)
         IN  IF pos.symbol = symbol /\ RLe(current_price, pos.stop_loss_price)
             THEN "stop_loss"
             ELSE IF pos.symbol = symbol /\ RGe(current_price, pos.take_profit_price)
             THEN "take_profit"
             ELSE check_position_exit(Tail(positions), symbol, current_price)

\* The indices of the positions of a symbol, in list order.
Matching(positions, symbol) ==
    {i \in 1..Len(positions) : positions[i].symbol = symbol}

Min(S) == CHOOSE x \in S : \A y \in S : x <= y

\* close_position, first loop: the pnl of the first matching position is
\* added to daily_pnl, then the loop breaks.
close_position_pnl(positions, pnl, symbol, exit_price) ==
    IF Matching(positions, symbol) = {}
    THEN pnl
    ELSE LET pos == positions[Min(Matching(positions, symbol))]
         IN  RAdd(pnl, RMul(RSub(exit_price, pos.entry_price), pos.qty))

\* Removal of the first position of the symbol only, as list.remove would do.
close_position_list_first_only(positions, symbol) ==
    IF Matching(positions, symbol) = {}
    THEN positions
    ELSE LET k == Min(Matching(positions, symbol))
         IN  SubSeq(positions, 1, k - 1) \o SubSeq(positions, k + 1, Len(positions))

\* close_position, the list comprehension: every position of the symbol goes.
close_position_list(positions, symbol) ==
    SelectSeq(positions, LAMBDA p : p.symbol # symbol)

-----------------------------------------------------------------------------
(* TradingEngine._execute_strategy: one strategy cycle                     *)

\* What the collaborators give during one cycle:
\*   fault    the collaborator call that raises in this cycle, or None
\*   bars     "empty" (None or no rows) or "ok"
\*   signal   what strategy.evaluate_signal returns
\*   account  portfolio_value of broker.get_account_summary()
\*   quote    data_provider.get_latest_price: ok = FALSE stands for None
\*   fill     broker.get_order_details: the share of the requested quantity
\*            reported filled and the fill price
\*   now      datetime.now()
CycleInput(fault, bars, signal, account, quote, fill, now) ==
    [fault |-> fault, bars |-> bars, signal |-> signal, account |-> account,
     quote |-> quote, fill |-> fill, now |-> now]

\* The state a cycle leaves and what it did: the PositionManager's fields,
\* the StrategyConfig, the trade log, the exception caught (or None), the
\* PositionManager methods called and the orders submitted, in order.
CycleResult(positions, pnl, s, log, raised, pm_calls, orders) ==
    [positions |-> positions, pnl |-> pnl, sc |-> s, log |-> log,
     raised |-> raised, pm_calls |-> pm_calls, orders |-> orders]

Order(side, symbol, qty) == [side |-> side, symbol |-> symbol, qty |-> qty]

\* The buy branch registering whatever the order filled.
execute_buy_any_fill(cfg, positions, pnl, s, log, in) ==
    LET calls2 == <<"get_num_open_positions", "can_open_position",
                    "calculate_position_size">>
        position_size == calculate_position_size(cfg, in.account, in.quote.price)
        order == Order("buy", s.symbol, position_size)
        filled_qty == RMul(in.fill.frac, position_size)
    IN  IF /\ can_open_position(cfg, positions, pnl, in.account)
           /\ in.quote.ok /\ RGt(position_size, Zero) /\ in.fault = None
        THEN CycleResult(
                 Append(positions,
                        new_position(cfg, s.symbol, in.fill.price, filled_qty, in.now)),
                 pnl,
                 [s EXCEPT !.trades_this_session = @ + 1, !.last_run = in.now],
                 log, None, calls2 \o <<"open_position">>, <<order>>)
        ELSE CycleResult(positions, pnl, s, log, None, calls2, <<>>)

\* The buy branch, lines 188-239, up to the assignment of last_run.
execute_buy(cfg, positions, pnl, s, log, in) ==
    LET calls1 == <<"get_num_open_positions", "can_open_position">>
        calls2 == calls1 \o <<"calculate_position_size">>
        position_size == calculate_position_size(cfg, in.account, in.quote.price)
        order == Order("buy", s.symbol, position_size)
        filled_qty == RMul(in.fill.frac, position_size)
        filled_price == in.fill.price
    IN  IF ~can_open_position(cfg, positions, pnl, in.account)
        THEN CycleResult(positions, pnl, [s EXCEPT !.last_run = in.now], log,
                         None, calls1, <<>>)
        ELSE IF ~in.quote.ok
        THEN CycleResult(positions, pnl, s, log, "TypeError", calls1, <<>>)
        ELSE IF ~RGt(position_size, Zero)
        THEN CycleResult(positions, pnl, [s EXCEPT !.last_run = in.now], log,
                         None, calls2, <<>>)
        ELSE IF in.fault = "submit_order"
        THEN CycleResult(positions, pnl, s, log, "Exception", calls2, <<>>)
        ELSE IF in.fault = "get_order_details"
        THEN CycleResult(positions, pnl, s, log, "Exception", calls2, <<order>>)
        ELSE IF RGt(filled_qty, Zero)
        THEN CycleResult(
                 Append(positions,
                        new_position(cfg, s.symbol, filled_price, filled_qty, in.now)),
                 pnl,
                 [s EXCEPT !.trades_this_session = @ + 1, !.last_run = in.now],
                 log, None, calls2 \o <<"open_position">>, <<order>>)
        ELSE CycleResult(positions, pnl, [s EXCEPT !.last_run = in.now], log,
                         None, calls2, <<order>>)

\* The sell branch, lines 241-301, up to the assignment of last_run.
execute_sell(cfg, positions, pnl, s, log, in) ==
    LET calls1 == <<"get_num_open_positions">>
        calls2 == calls1 \o <<"close_position">>
    IN  IF ~(Len(positions) > 0)
        THEN CycleResult(positions, pnl, [s EXCEPT !.last_run = in.now], log,
                         None, calls1, <<>>)
        ELSE
        LET position == positions[1]
            entry_price == position.entry_price
            entry_qty == position.qty
            order == Order("sell", s.symbol, entry_qty)
            exit_qty == RMul(in.fill.frac, entry_qty)
            exit_price == in.fill.price
            trade_pnl == RMul(RSub(exit_price, entry_price), exit_qty)
            closed == close_position_list(positions, s.symbol)
            closed_pnl == close_position_pnl(positions, pnl, s.symbol, exit_price)
            row == [symbol |-> s.symbol, entry_price |-> entry_price,
                    exit_price |-> exit_price, quantity |-> exit_qty,
                    pnl |-> trade_pnl, entry_time |-> position.entry_date,
                    exit_time |-> in.now, exit_reason |-> "signal"]
        IN  IF in.fault = "submit_order"
            THEN CycleResult(positions, pnl, s, log, "Exception", calls1, <<>>)
            ELSE IF in.fault = "get_order_details"
            THEN CycleResult(positions, pnl, s, log, "Exception", calls1, <<order>>)
            ELSE IF ~RGt(exit_qty, Zero)
            THEN CycleResult(positions, pnl, [s EXCEPT !.last_run = in.now], log,
                             None, calls1, <<order>>)
            ELSE IF entry_price = Zero
            THEN CycleResult(closed, closed_pnl, s, log, "ZeroDivisionError",
                             calls2, <<order>>)
            ELSE IF in.fault = "log_trade"
            THEN CycleResult(closed, closed_pnl, s, log, "Exception",
                             calls2, <<order>>)
            ELSE CycleResult(
                     closed, closed_pnl,
                     [s EXCEPT !.trades_this_session = @ + 1,
                               !.pnl_this_session = RAdd(@, trade_pnl),
                               !.last_run = in.now],
                     Append(log, row), None, calls2, <<order>>)

\* A cycle that rolls the daily pnl over before it acts on the signal.
execute_strategy_rollover(cfg, positions, pnl, s, log, in) ==
    IF in.signal = "sell"
    THEN execute_sell(cfg, positions, Zero, s, log, in)
    ELSE execute_buy(cfg, positions, Zero, s, log, in)

\* _execute_strategy(config): every exception is caught at the end of the
\* method, after which nothing more is done.
execute_strategy(cfg, positions, pnl, s, log, in) ==
    IF in.fault = "get_bars"
    THEN CycleResult(positions, pnl, s, log, "Exception", <<>>, <<>>)
    ELSE IF in.bars = "empty"
    THEN CycleResult(positions, pnl, s, log, None, <<>>, <<>>)
    ELSE IF in.fault = "evaluate_signal"
    THEN CycleResult(positions, pnl, s, log, "Exception", <<>>, <<>>)
    ELSE IF in.fault = "get_account_summary"
    THEN CycleResult(positions, pnl, s, log, "Exception",
                     <<"get_num_open_positions">>, <<>>)
    ELSE IF in.signal = "buy"
    THEN execute_buy(cfg, positions, pnl, s, log, in)
    ELSE IF in.signal = "sell"
    THEN execute_sell(cfg, positions, pnl, s, log, in)
    ELSE CycleResult(positions, pnl, [s EXCEPT !.last_run = in.now], log, None,
                     <<"get_num_open_positions">>, <<>>)

-----------------------------------------------------------------------------
(* BacktestEngine.run                                                      *)

WarmUp == 20        \* range(20, len(bars)): the first bar the loop handles

\* What data_provider.get_bars returns: None, an empty frame, or a frame of
\* n bars in ascending order.  close holds the closes of the bars WarmUp ..
\* n - 1; run() reads no close of an earlier bar, and they all stand at
\* WarmUpClose.
Bars(kind, n, close) == [kind |-> kind, n |-> n, close |-> close]

WarmUpClose == Num(50)

\* bars["close"].iloc[i]
close_at(bars, i) ==
    IF i < WarmUp THEN WarmUpClose ELSE bars.close[i - WarmUp + 1]

\* TestStrategy: call_count is kept modulo len(signals), the only way
\* evaluate_signal reads it.
TestStrategy(call_count) ==
    [kind |-> "TestStrategy", call_count |-> call_count, plan |-> <<>>]

\* A strategy without state of its own, such as SimpleSMA: its signal is a
\* function of the window it is given, which for the bars of one engine is a
\* function of the window's last index; plan[k] is the signal on the window
\* that ends with bar WarmUp + k - 1.
StatelessStrategy(plan) ==
    [kind |-> "stateless", call_count |-> 0, plan |-> plan]

TestSignals == <<"buy", "hold", "sell", "hold">>

\* strategy.evaluate_signal(bars.iloc[: i + 1]): the signal returned.  A
\* stateless strategy holds on a window shorter than long_window + 1 bars.
evaluate_signal(strategy, i) ==
    IF strategy.kind = "TestStrategy"
    THEN TestSignals[(strategy.call_count % Len(TestSignals)) + 1]
    ELSE IF i < WarmUp THEN "hold"
    ELSE strategy.plan[i - WarmUp + 1]

\* strategy.evaluate_signal(...): the strategy object after the call.
evaluated(strategy) ==
    IF strategy.kind = "TestStrategy"
    THEN [strategy EXCEPT !.call_count = (@ + 1) % Len(TestSignals)]
    ELSE strategy

\* BacktestEngine.__init__: the fields run() reads or writes.  The engine's
\* PositionManager is built here too (see Init).
BacktestEngine(strategy, bars, starting_cash, slippage_pct, commission_stock_fixed, commission_crypto_pct) ==
    [strategy               |-> strategy,
     bars                   |-> bars,    \* what self.data_provider returns
     starting_cash          |-> starting_cash,
     slippage_pct           |-> slippage_pct,
     commission_stock_fixed |-> commission_stock_fixed,
     commission_crypto_pct  |-> commission_crypto_pct,
     entry_price            |-> None,
     entry_time             |-> None,
     pc        |-> "idle",   \* where run() is: idle, loop or done
     symbol    |-> None,     \* run's argument
     i         |-> 0,        \* the loop index
     signal    |-> None,     \* signal of the last bar the loop handled
     price     |-> Zero,     \* close of the last bar the loop handled
     cash      |-> Zero,
     position_qty |-> Zero,
     trades    |-> <<>>,
     equity_curve |-> <<>>]

BacktestResult(symbol, starting_cash, trades, bars_processed, equity_curve) ==
    [symbol |-> symbol, starting_cash |-> starting_cash, trades |-> trades,
     bars_processed |-> bars_processed, equity_curve |-> equity_curve]

\* "USD" in symbol or "/" in symbol, for the symbols of the model.
IsCryptoSymbol(symbol) == symbol \in {"XRP/USD"}

\* The commission of a fill of the given notional.
commission_of(b, notional) ==
    IF IsCryptoSymbol(b.symbol)
    THEN RMul(notional, b.commission_crypto_pct)
    ELSE b.commission_stock_fixed

\* The Trade dict run() appends.
Trade(b, exit_price, pnl, exit_time, commission) ==
    [symbol |-> b.symbol, entry_price |-> b.entry_price, exit_price |-> exit_price,
     qty |-> b.position_qty, pnl |-> pnl, entry_time |-> b.entry_time,
     exit_time |-> exit_time, commission |-> commission,
     slippage |-> b.slippage_pct]

\* The buy branch of the loop body, lines 78-98.
bar_buy(b, cfg, price) ==
    LET qty0 == RDiv(RMul(b.cash, cfg.risk_per_trade), price)
        slip_price == RMul(price, RAdd(One, b.slippage_pct))
        notional0 == RMul(qty0, slip_price)
        commission == commission_of(b, notional0)
        total_cost0 == RAdd(notional0, commission)
        scaled == RGt(total_cost0, b.cash)
        qty == IF scaled THEN RMul(qty0, RDiv(b.cash, total_cost0)) ELSE qty0
        total_cost == IF scaled THEN RAdd(RMul(qty, slip_price), commission)
                                ELSE total_cost0
    IN  [b EXCEPT !.cash = RSub(b.cash, total_cost),
                  !.position_qty = qty,
                  !.entry_price = slip_price,
                  !.entry_time = b.i]

\* The sell branch of the loop body, lines 102-129.
bar_sell(b, price) ==
    LET slip_price == RMul(price, RSub(One, b.slippage_pct))
        notional == RMul(b.position_qty, slip_price)
        commission == commission_of(b, notional)
        pnl == RSub(RMul(RSub(slip_price, b.entry_price), b.position_qty), commission)
    IN  [b EXCEPT !.cash = RAdd(b.cash, RSub(notional, commission)),
                  !.trades = Append(b.trades, Trade(b, slip_price, pnl, b.i, commission)),
                  !.position_qty = Zero,
                  !.entry_price = None,
                  !.entry_time = None]

\* A loop body that acts on the signal whatever position is held.
bar_step_unguarded(b, cfg) ==
    LET signal == evaluate_signal(b.strategy, b.i)
        price == close_at(b.bars, b.i)
        acted == IF signal = "buy" THEN bar_buy(b, cfg, price)
                 ELSE IF signal = "sell" /\ b.entry_price # None
                 THEN bar_sell(b, price)
                 ELSE b
    IN  [acted EXCEPT !.equity_curve =
                          Append(@, [equity |-> RAdd(acted.cash,
                                                     RMul(acted.position_qty, price))]),
                      !.strategy = evaluated(b.strategy),
                      !.signal = signal, !.price = price, !.i = b.i + 1]

\* One pass of the loop body, for bar i.
bar_step(b, cfg) ==
    LET signal == evaluate_signal(b.strategy, b.i)
        price == close_at(b.bars, b.i)
        acted == IF signal = "buy" /\ b.position_qty = Zero
                 THEN bar_buy(b, cfg, price)
                 ELSE IF signal = "sell" /\ RGt(b.position_qty, Zero)
                 THEN bar_sell(b, price)
                 ELSE b
        total_equity == RAdd(acted.cash, RMul(acted.position_qty, price))
    IN  [acted EXCEPT !.equity_curve = Append(@, [equity |-> total_equity]),
                      !.strategy = evaluated(b.strategy),
                      !.signal = signal,
                      !.price = price,
                      !.i = b.i + 1]

\* The forced close after the loop, lines 134-159: the Trade is recorded
\* with the unslipped final close as its exit_price.
final_close(b) ==
    IF RGt(b.position_qty, Zero) /\ b.entry_price # None
    THEN LET final_price == close_at(b.bars, b.bars.n - 1)
             exit_price == RMul(final_price, RSub(One, b.slippage_pct))
             notional == RMul(b.position_qty, exit_price)
             commission == commission_of(b, notional)
             pnl == RSub(RMul(RSub(exit_price, b.entry_price), b.position_qty),
                         commission)
         IN  [b EXCEPT !.cash = RAdd(b.cash, RSub(notional, commission)),
                       !.trades = Append(b.trades,
                                         Trade(b, final_price, pnl, b.bars.n - 1,
                                               commission))]
    ELSE b

\* The locals of run() when the loop is about to handle bar first.
run_locals(b, symbol, first) ==
    [b EXCEPT !.pc = "loop", !.symbol = symbol, !.i = first,
              !.cash = b.starting_cash, !.position_qty = Zero,
              !.trades = <<>>, !.equity_curve = <<>>,
              !.signal = None, !.price = Zero]

\* A run whose loop starts with the first bar of the frame.
run_begin_no_warm_up(b, symbol) == run_locals(b, symbol, 0)

\* run(), lines 67-73: the locals as the loop is entered.
run_begin(b, symbol) == run_locals(b, symbol, WarmUp)

\* A run that fails when there are no bars.
run_no_bars_raises(b, symbol) == [raised |-> "ValueError", value |-> None]

\* run(), lines 63-65: what a run without bars gives.
run_no_bars(b, symbol) ==
    [raised |-> None,
     value |-> BacktestResult(symbol, b.starting_cash, <<>>, 0, <<>>)]

-----------------------------------------------------------------------------
(* BacktestResult: the derived metrics                                     *)

\* Python's sum() over a list of floats.
RECURSIVE RSum(_)
RSum(seq) == IF seq = <<>> THEN Zero ELSE RAdd(RSum(SubSeq(seq, 1, Len(seq) - 1)), seq[Len(seq)])

total_trades(res) == Len(res.trades)

total_pnl(res) ==
    IF res.trades # <<>>
    THEN RSum([k \in 1..Len(res.trades) |-> res.trades[k].pnl])
    ELSE Zero

total_commission(res) ==
    RSum([k \in 1..Len(res.trades) |-> res.trades[k].commission])

\* len([t for t in self.trades if t['pnl'] > 0])
num_wins(res) ==
    Cardinality({k \in 1..Len(res.trades) : RGt(res.trades[k].pnl, Zero)})

\* A win rate that counts every trade that did not lose.
win_rate_not_lost(res) ==
    IF res.trades = <<>>
    THEN Zero
    ELSE Rat(Cardinality({k \in 1..Len(res.trades) :
                             RGe(res.trades[k].pnl, Zero)}),
             Len(res.trades))

win_rate(res) ==
    IF res.trades = <<>>
    THEN Zero
    ELSE Rat(num_wins(res), Len(res.trades))

\* Python's max(a, b): b only when b > a.
PyMax(a, b) == IF RGt(b, a) THEN b ELSE a

\* The loop of max_drawdown from the k-th equity value on; a peak of zero
\* makes the division raise.
RECURSIVE drawdown_loop(_, _, _, _)
drawdown_loop(curve, k, peak, max_dd) ==
    IF k > Len(curve)
    THEN [raised |-> None, value |-> max_dd]
    ELSE LET equity == curve[k].equity
             peak2 == IF RGt(equity, peak) THEN equity ELSE peak
         IN  IF peak2 = Zero
             THEN [raised |-> "ZeroDivisionError", value |-> Zero]
             ELSE drawdown_loop(curve, k + 1, peak2,
                                PyMax(max_dd, RDiv(RSub(peak2, equity), peak2)))

max_drawdown(res) ==
    IF res.equity_curve = <<>>
    THEN [raised |-> None, value |-> Zero]
    ELSE drawdown_loop(res.equity_curve, 1, res.equity_curve[1].equity, Zero)

num_losses(res) ==
    Cardinality({k \in 1..Len(res.trades) : RLt(res.trades[k].pnl, Zero)})

\* The pnl of the trades numbered in ks, where ks is not empty, averaged.
avg_pnl(res, ks) ==
    RDiv(RSum([k \in 1..Len(res.trades) |->
                  IF k \in ks THEN res.trades[k].pnl ELSE Zero]),
         Num(Cardinality(ks)))

\* sum(wins) / len(wins) if wins else 0.0
avg_win(res) ==
    LET wins == {k \in 1..Len(res.trades) : RGt(res.trades[k].pnl, Zero)}
    IN  IF wins # {} THEN avg_pnl(res, wins) ELSE Zero

\* sum(losses) / len(losses) if losses else 0.0
avg_loss(res) ==
    LET losses == {k \in 1..Len(res.trades) : RLt(res.trades[k].pnl, Zero)}
    IN  IF losses # {} THEN avg_pnl(res, losses) ELSE Zero

\* (total_pnl / starting_cash) * 100, where starting_cash is not zero.
return_pct(res) ==
    RMul(RDiv(total_pnl(res), res.starting_cash), Num(100))

\* summary(): the metrics in the order the dict is built; the first division
\* by zero ends it.
summary(res) ==
    IF res.starting_cash = Zero
    THEN [raised |-> "ZeroDivisionError", value |-> None]
    ELSE IF max_drawdown(res).raised # None
    THEN [raised |-> max_drawdown(res).raised, value |-> None]
    ELSE [raised |-> None,
          value |-> [symbol |-> res.symbol,
                     bars_processed |-> res.bars_processed,
                     total_trades |-> total_trades(res),
                     total_pnl |-> total_pnl(res),
                     return_pct |-> return_pct(res),
                     win_rate |-> win_rate(res),
                     num_wins |-> num_wins(res),
                     num_losses |-> num_losses(res),
                     avg_win |-> avg_win(res),
                     avg_loss |-> avg_loss(res),
                     max_drawdown |-> max_drawdown(res).value,
                     total_commission |-> total_commission(res)]]

-----------------------------------------------------------------------------
(* Scheduler                                                               *)

\* A datetime is <<day, second>>: the day counted from a Monday and the
\* second of that day; sub-second resolution is left out.
Datetime(day, second) == <<day, second>>
\* A last_run of None, written so that it can sit in a set of datetimes.
NoDatetime == <<>>
weekday(dt) == dt[1] % 7
total_seconds(later, earlier) ==
    (later[1] - earlier[1]) * 86400 + (later[2] - earlier[2])

\* time(9, 30) and time(16, 0) as the second of the day.
STOCK_OPEN == 9 * 3600 + 30 * 60
STOCK_CLOSE == 16 * 3600

\* str.lower() on the asset type names the callers use.
lower(s) ==
    CASE s \in {"stock", "Stock", "STOCK"} -> "stock"
      [] s \in {"crypto", "Crypto", "CRYPTO"} -> "crypto"
      [] OTHER -> s

\* is_market_open with the stock window closed on the right end as well.
is_market_open_through_close(asset_type, now) ==
    IF lower(asset_type) = "crypto"
    THEN [raised |-> None, value |-> TRUE]
    ELSE IF lower(asset_type) = "stock"
    THEN IF weekday(now) >= 5
         THEN [raised |-> None, value |-> FALSE]
         ELSE [raised |-> None,
               value |-> STOCK_OPEN <= now[2] /\ now[2] <= STOCK_CLOSE]
    ELSE [raised |-> "ValueError", value |-> None]

\* Scheduler.is_market_open(asset_type), where now is what datetime.now(et)
\* returns in the exchange's timezone.
is_market_open(asset_type, now) ==
    IF lower(asset_type) = "crypto"
    THEN [raised |-> None, value |-> TRUE]
    ELSE IF lower(asset_type) = "stock"
    THEN IF weekday(now) >= 5
         THEN [raised |-> None, value |-> FALSE]
         ELSE [raised |-> None,
               value |-> STOCK_OPEN <= now[2] /\ now[2] < STOCK_CLOSE]
    ELSE [raised |-> "ValueError", value |-> None]

\* should_run_strategy asking for more than the interval to have elapsed.
should_run_strategy_after_interval(asset_type, last_run, interval_seconds, now) ==
    LET open == is_market_open(asset_type, now)
    IN  IF open.raised # None THEN open
        ELSE IF ~open.value THEN [raised |-> None, value |-> FALSE]
        ELSE IF last_run = NoDatetime THEN [raised |-> None, value |-> TRUE]
        ELSE [raised |-> None,
              value |-> total_seconds(now, last_run) > interval_seconds]

\* Scheduler.should_run_strategy(asset_type, last_run, interval_seconds);
\* the two clock reads of one call return the same instant.
should_run_strategy(asset_type, last_run, interval_seconds, now) ==
    LET open == is_market_open(asset_type, now)
    IN  IF open.raised # None THEN open
        ELSE IF ~open.value THEN [raised |-> None, value |-> FALSE]
        ELSE IF last_run = NoDatetime THEN [raised |-> None, value |-> TRUE]
        ELSE [raised |-> None,
              value |-> total_seconds(now, last_run) >= interval_seconds]

-----------------------------------------------------------------------------
(* AlpacaBroker                                                            *)

\* round(x, ndigits) for ndigits = 8: the nearest multiple of 10^-8, a tie
\* going to the even one.
round_8(x) ==
    LET scaled == RMul(x, Num(100000000))
        low == Floor(scaled)
        rest == RSub(scaled, low)
        units == IF RLt(rest, Rat(1, 2)) THEN low
                 ELSE IF RGt(rest, Rat(1, 2)) THEN RAdd(low, One)
                 ELSE IF low[1] % 2 = 0 THEN low ELSE RAdd(low, One)
    IN  RDiv(units, Num(100000000))

\* _is_crypto(symbol): "/" in symbol, on the symbols traded.
_is_crypto(symbol) == symbol \in {"XRP/USD", "BTC/USD"}

\* _get_position_qty(symbol): the quantity the account holds, 0.0 when it
\* holds none.
_get_position_qty(b, symbol) == b.positions[symbol]

\* The default of _wait_for_fill's timeout_seconds, and the polls that fit
\* in one second with time.sleep(0.2) between them.
timeout_seconds == 30
polls_per_second == 5

\* An order as the trading API reports it.
NoOrder ==
    [symbol |-> None, side |-> None, qty |-> Zero, status |-> None,
     filled_qty |-> Zero, filled_avg_price |-> Zero]
MarketOrder(symbol, side, qty) ==
    [symbol |-> symbol, side |-> side, qty |-> qty, status |-> "new",
     filled_qty |-> Zero, filled_avg_price |-> Zero]

\* A key absent from _position_before_order.
Absent == <<>>

\* AlpacaBroker(paper) and the account behind its client.
AlpacaBroker(positions) ==
    [_position_before_order |-> [s \in DOMAIN positions |-> Absent],
     positions |-> positions,       \* client.get_positions()
     order |-> NoOrder,             \* the order, as the trading API holds it
     submitted |-> 0,               \* raw_submit_order calls of this buy()/sell()
     held_at_submit |-> Zero,       \* what the account held of the symbol then
     calls |-> 0,                   \* buy() and sell() calls so far
     pc |-> "idle",                 \* idle | wait (in _wait_for_fill) | returned
     polls |-> 0,                   \* sleeps since start_time, 0 outside the poll
     order_response |-> NoOrder]    \* what buy()/sell() returned

\* buy(symbol, qty) and sell(symbol, qty) up to the loop of _wait_for_fill:
\* the snapshot, the one raw_submit_order, start_time.
submit_order(b, symbol, side, qty) ==
    [b EXCEPT !._position_before_order[symbol] = _get_position_qty(b, symbol),
              !.order = MarketOrder(symbol, side, qty),
              !.submitted = 1,
              !.held_at_submit = b.positions[symbol],
              !.calls = @ + 1,
              !.pc = "wait",
              !.polls = 0,
              !.order_response = NoOrder]

\* _wait_for_fill without the timeout: it polls until the order is filled.
_wait_for_fill_until_filled(b) ==
    IF b.order.status \in {"filled", "partially_filled"}
    THEN [b EXCEPT !.pc = "returned", !.polls = 0, !.order_response = b.order]
    ELSE [b EXCEPT !.polls = IF @ < timeout_seconds * polls_per_second
                             THEN @ + 1 ELSE @]

\* One pass of _wait_for_fill: the loop test, get_order_by_id, the status
\* test and the sleep, or after the loop the last get_order_by_id.
_wait_for_fill(b) ==
    IF b.polls < timeout_seconds * polls_per_second
    THEN IF b.order.status \in {"filled", "partially_filled"}
         THEN [b EXCEPT !.pc = "returned", !.polls = 0, !.order_response = b.order]
         ELSE [b EXCEPT !.polls = @ + 1]
    ELSE [b EXCEPT !.pc = "returned", !.polls = 0, !.order_response = b.order]

\* get_order_details trusting the order's own filled_qty for every symbol.
get_order_details_from_order(b, order_response, symbol) ==
    [filled_qty |-> order_response.filled_qty,
     filled_price |-> order_response.filled_avg_price,
     status |-> order_response.status,
     qty_requested |-> order_response.qty]

\* get_order_details(order_response, symbol): the dict it returns.
get_order_details(b, order_response, symbol) ==
    LET qty_before == IF b._position_before_order[symbol] = Absent
                      THEN Zero ELSE b._position_before_order[symbol]
        qty_after == _get_position_qty(b, symbol)
    IN  [filled_qty |->
             IF _is_crypto(symbol)
             THEN round_8(IF order_response.side = "buy"
                          THEN RSub(qty_after, qty_before)
                          ELSE RSub(qty_before, qty_after))
             ELSE order_response.filled_qty,
         filled_price |-> order_response.filled_avg_price,
         status |-> order_response.status,
         qty_requested |-> order_response.qty]

\* The taker fee the exchange takes out of the asset a crypto buy receives.
crypto_fee == Rat(1, 400)

\* The account after the exchange has filled the order up to filled_qty at
\* the price.
exchange_fill(b, filled_qty, price) ==
    LET o == b.order
        more == RSub(filled_qty, o.filled_qty)
        change == IF o.side = "sell" THEN RNeg(more)
                  ELSE IF _is_crypto(o.symbol)
                  THEN RMul(more, RSub(One, crypto_fee))
                  ELSE more
    IN  [b EXCEPT !.positions[o.symbol] = RAdd(@, change),
                  !.order.filled_qty = filled_qty,
                  !.order.filled_avg_price = price,
                  !.order.status = IF filled_qty = o.qty THEN "filled"
                                   ELSE "partially_filled"]

-----------------------------------------------------------------------------
(* TradingEngine: start, stop and the loop                                  *)

\* StrategyConfig(symbol, ..., asset_type) as add_strategy builds it.
StrategyConfig(symbol, asset_type) ==
    [symbol |-> symbol, asset_type |-> asset_type, enabled |-> TRUE,
     last_run |-> None, trades_this_session |-> 0, pnl_this_session |-> Zero]

\* What a thread that runs _run_loop is doing: "test" is the while test,
\* "admit" the for loop of _execute_all_strategies at the k-th config,
\* "cycle" inside _execute_strategy for it, "exited" returned from _run_loop;
\* n is the size the strategies dict had when the for loop began, which its
\* iterator compares with the dict's size at every step.
LoopThread == [pc |-> "test", k |-> 0, n |-> 0]

\* TradingEngine(...) after add_strategy for each (symbol, asset_type) of
\* the list; engine_thread = 0 stands for None.
TradingEngine(registered) ==
    [strategies |-> [k \in 1..Len(registered) |->
                        [StrategyConfig(registered[k][1], registered[k][2])
                            EXCEPT !.last_run = NoDatetime]],
     is_running |-> FALSE,
     stop_event |-> FALSE,
     engine_thread |-> 0,
     threads |-> <<>>,      \* every Thread start() has started
     main |-> "idle",       \* the thread that calls start() and stop(): idle | join
     joined |-> 0]          \* seconds it has waited in engine_thread.join

\* The timeout of engine_thread.join, in seconds.
join_timeout == 5

\* start() without its test of is_running.
start_unguarded(e) ==
    [e EXCEPT !.is_running = TRUE,
              !.stop_event = FALSE,
              !.threads = Append(@, LoopThread),
              !.engine_thread = Len(e.threads) + 1]

\* start(): the engine afterwards.
start(e) ==
    IF e.is_running
    THEN e
    ELSE [e EXCEPT !.is_running = TRUE,
                   !.stop_event = FALSE,
                   !.threads = Append(@, LoopThread),
                   !.engine_thread = Len(e.threads) + 1]

\* stop() up to engine_thread.join: the engine afterwards.
stop(e) ==
    IF ~e.is_running
    THEN e
    ELSE [e EXCEPT !.is_running = FALSE,
                   !.stop_event = TRUE,
                   !.main = IF e.engine_thread # 0 THEN "join" ELSE "idle",
                   !.joined = 0]

\* engine_thread.join() with no timeout: it waits for the thread to finish.
join_without_timeout(e) ==
    IF e.threads[e.engine_thread].pc = "exited"
    THEN [e EXCEPT !.main = "idle", !.joined = 0]
    ELSE e

\* One second of engine_thread.join(timeout = 5), or its return and with it
\* the return of stop().
join(e) ==
    IF e.threads[e.engine_thread].pc = "exited" \/ e.joined >= join_timeout
    THEN [e EXCEPT !.main = "idle", !.joined = 0]
    ELSE [e EXCEPT !.joined = @ + 1]

\* The loop thread after the for loop is done with the k-th config: the
\* iterator of strategies.items() raises RuntimeError (dictionary changed
\* size during iteration) when the dict has another size than at the start
\* of the loop, which _run_loop catches; otherwise the next config, or after
\* the last one time.sleep(1) and the while test.
next_config(e, t) ==
    IF Len(e.strategies) # e.threads[t].n
    THEN [e EXCEPT !.threads[t] = LoopThread]
    ELSE IF e.threads[t].k < Len(e.strategies)
    THEN [e EXCEPT !.threads[t].pc = "admit", !.threads[t].k = @ + 1]
    ELSE [e EXCEPT !.threads[t] = LoopThread]

\* add_strategy(symbol, ..., asset_type) on the engine: the new StrategyConfig
\* is stored under the key symbol_asset_type, at the end of the dict when the
\* key is new.
add_strategy_to(e, symbol, asset_type) ==
    LET cfg == [StrategyConfig(symbol, asset_type) EXCEPT !.last_run = NoDatetime]
        same == {k \in 1..Len(e.strategies) :
                    /\ e.strategies[k].symbol = symbol
                    /\ e.strategies[k].asset_type = asset_type}
    IN  IF same = {}
        THEN [e EXCEPT !.strategies = Append(@, cfg)]
        ELSE [e EXCEPT !.strategies = [k \in 1..Len(@) |->
                                          IF k \in same THEN cfg ELSE @[k]]]

\* The while test of _run_loop.
loop_test(e, t) ==
    IF e.stop_event
    THEN [e EXCEPT !.threads[t] = [pc |-> "exited", k |-> 0, n |-> 0]]
    ELSE [e EXCEPT !.threads[t] = [pc |-> "admit", k |-> 1,
                                   n |-> Len(e.strategies)]]

\* _execute_all_strategies at the k-th config: the enabled test and
\* Scheduler.should_run_strategy; what that raises leaves the for loop and
\* is caught by _run_loop, which goes back to its while test.
admit(e, t, interval_seconds, now) ==
    LET cfg == e.strategies[e.threads[t].k]
        due == should_run_strategy(cfg.asset_type, cfg.last_run, interval_seconds, now)
    IN  IF ~cfg.enabled THEN next_config(e, t)
        ELSE IF due.raised # None
        THEN [e EXCEPT !.threads[t] = LoopThread]
        ELSE IF due.value THEN [e EXCEPT !.threads[t].pc = "cycle"]
        ELSE next_config(e, t)

\* _execute_strategy(config) for the k-th config as the loop sees it: it
\* returns without raising, and only a cycle that ran to its end has set
\* last_run (execute_strategy above).
cycle(e, t, outcome, now) ==
    next_config(IF outcome = "completed"
                THEN [e EXCEPT !.strategies[e.threads[t].k].last_run = now]
                ELSE e, t)

-----------------------------------------------------------------------------
(* The values the callers pass                                             *)

MaxOpen == 2        \* open_position is not called on a list this long
MaxAbsPnl == 60     \* close_position is not called when |daily_pnl| would pass it

Symbols == {"AAPL", "XRP/USD"}
EntryPrices == {Num(40), Num(50)}
ExitPrices == {Num(30), Num(70)}
CheckPrices == ExitPrices \cup {Num(50)}
Qtys == {Num(2)}
EntryDates == {"t1"}
Equities == {Num(100), Num(1000)}
SizingEquities == {Num(-100), Num(100), Num(100000)}
SizingPrices == {Num(-50), Zero, Num(3), Num(50)}

Call(op, args, raised, value) ==
    [op |-> op, args |-> args, raised |-> raised, value |-> value]

MaxTrades == 3      \* no cycle is run once trades_this_session is this high

AccountValues == {Num(100), Num(250)}
NoQuote == [ok |-> FALSE, price |-> Zero]
Quotes == {NoQuote, [ok |-> TRUE, price |-> Num(50)]}
NoFill == [frac |-> Zero, price |-> Zero]
Fills ==
    {NoFill} \cup {[frac |-> f, price |-> p] : f \in {Rat(1, 2), One},
                                               p \in {Num(40), Num(60)}}
Times == {"t1"}

\* The inputs of a cycle; a collaborator the cycle does not reach has the
\* first value of its kind.
CycleInputs ==
    {CycleInput(f, "ok", "hold", Num(100), NoQuote, NoFill, t) :
        f \in {"get_bars", "evaluate_signal", "get_account_summary"}, t \in Times}
    \cup {CycleInput(None, "empty", "hold", Num(100), NoQuote, NoFill, t) :
        t \in Times}
    \cup {CycleInput(None, "ok", "hold", a, NoQuote, NoFill, t) :
        a \in AccountValues, t \in Times}
    \cup {CycleInput(f, "ok", "buy", a, q, x, t) :
        f \in {None, "submit_order", "get_order_details"},
        a \in AccountValues, q \in Quotes, x \in Fills, t \in Times}
    \cup {CycleInput(f, "ok", "sell", a, NoQuote, x, t) :
        f \in {None, "submit_order", "get_order_details", "log_trade"},
        a \in AccountValues, x \in Fills, t \in Times}

MaxBars == 2        \* a backtest has at most this many bars after the warm-up

\* BacktestEngine(...) as it is constructed: an account with slippage and a
\* crypto commission rate and no stock commission (the shape of the defaults,
\* with rates whose exact fractions stay small), and a small account with a
\* fixed stock commission and no slippage.
BacktestArgs ==
    { <<Num(1000), Rat(1, 10), Zero, Rat(1, 10)>>,
      <<Num(100), Zero, Num(25), Rat(1, 10)>> }

\* The risk_config a BacktestEngine is constructed with: none, which gives
\* RiskConfig(), and one that risks the whole cash on a trade.
DefaultRiskArgs ==
    <<Rat(2, 100), Rat(5, 100), Rat(10, 100), Num(100), Num(3), Rat(5, 100)>>
BacktestRiskArgs ==
    { DefaultRiskArgs,
      <<One, Rat(5, 100), Rat(10, 100), Num(100), Num(3), Rat(5, 100)>> }
BarCloses == {Num(40), Num(50)}
Signals == {"buy", "sell", "hold"}

\* The frames the data provider has for a backtest: none, an empty one, frames
\* no longer than the warm-up, and frames with bars after it.
Frames ==
    {Bars("None", 0, <<>>), Bars("empty", 0, <<>>)}
    \cup {Bars("ok", n, <<>>) : n \in {1, WarmUp}}
    \cup UNION {{Bars("ok", WarmUp + k, c) : c \in [1..k -> BarCloses]} :
                    k \in 1..MaxBars}

\* The strategies a backtest over the frame is run with.
Strategies(bars) ==
    {TestStrategy(0)}
    \cup {StatelessStrategy(p) : p \in [1..Len(bars.close) -> Signals]}

MaxLedger == 3      \* a ledger given to BacktestResult has at most this many trades

\* The ledgers and equity curves client code builds a BacktestResult from.
TradePnls == {Num(-5), Zero, Num(5)}
LedgerTrade(pnl) == [pnl |-> pnl, commission |-> One]
Ledgers ==
    UNION {{[k \in 1..n |-> LedgerTrade(p[k])] : p \in [1..n -> TradePnls]} :
              n \in 0..MaxLedger}
EquityPoints(values) == [k \in 1..Len(values) |-> [equity |-> Num(values[k])]]
Curves ==
    {EquityPoints(<<>>), EquityPoints(<<100, 110, 120>>),
     EquityPoints(<<100000, 90000, 95000>>), EquityPoints(<<0, 10>>),
     EquityPoints(<<100, 50, 200, 150>>)}
StartingCash == {Num(1000), Zero}

\* The asset types, instants (Monday 09:29:59 to 16:00:00, Friday, Saturday,
\* Sunday, the next Monday), last runs and intervals the Scheduler is asked
\* about.
AssetTypes == {"stock", "crypto", "Stock", "CRYPTO", "forex"}
Instants ==
    {Datetime(0, 34199), Datetime(0, 34200), Datetime(0, 34499),
     Datetime(0, 34500), Datetime(0, 57599), Datetime(0, 57600),
     Datetime(4, 57599), Datetime(5, 43200), Datetime(6, 36000),
     Datetime(7, 34200)}
LastRuns == {NoDatetime, Datetime(0, 34200), Datetime(5, 43200)}
Intervals == {300}

\* What the account holds when the AlpacaBroker is built, the quantity of a
\* buy, and the prices and fractions the exchange fills at.
MaxOrders == 1      \* buy() and sell() are not called more often than this
AccountPositions ==
    {[s \in Symbols |-> Zero],
     [s \in Symbols |-> IF _is_crypto(s) THEN Rat(399, 200) ELSE Num(2)]}
OrderQtys == {Num(2)}
FillPrices == {Num(50)}
FillFractions == {Rat(1, 2), One}

\* The strategies a TradingEngine is given before it is started, in the
\* order of the add_strategy calls, the default interval_seconds, the clock
\* of its ticks (a Monday at 10:00) and how a cycle can end.
MaxThreads == 2     \* start() is not called once it has started this many threads
RegistrationLists ==
    {<<<<"XRP/USD", "crypto">>, <<"AAPL", "stock">>>>,
     <<<<"EUR/USD", "forex">>, <<"XRP/USD", "crypto">>>>,
     <<<<"XRP/USD", "crypto">>, <<"EUR/USD", "forex">>>>}
EngineInterval == 300
EngineNow == Datetime(0, 36000)
CycleOutcomes == {"completed", "empty", "raised"}

\* The (symbol, asset_type) of an add_strategy call made after start().
LateRegistrations == {<<"ETH/USD", "crypto">>}

\* The (symbol, asset_type) pairs strategies are registered with.
Registrations == {<<"AAPL", "stock">>, <<"XRP/USD", "crypto">>}

-----------------------------------------------------------------------------
(* Construction                                                            *)

\* A PositionManager is built by client code and called directly, or built
\* by client code and handed to TradingEngine.add_strategy, or built by
\* BacktestEngine.__init__ for its own use.  The other owners are client
\* code holding a BacktestResult, calling the Scheduler, holding an
\* AlpacaBroker, or starting and stopping a TradingEngine.
Owners ==
    {"caller", "TradingEngine", "BacktestEngine", "BacktestResult", "Scheduler",
     "AlpacaBroker", "TradingEngine.start"}

\* RiskConfig(...) followed by PositionManager(risk_config).
Init ==
    /\ owner \in Owners
    /\ \E a \in IF owner = "BacktestEngine" THEN BacktestRiskArgs
             ELSE IF owner \in {"caller", "TradingEngine"} THEN ConfigArgs
             ELSE {DefaultRiskArgs} :
          config = RiskConfig(a[1], a[2], a[3], a[4], a[5], a[6])
    /\ open_positions = <<>>
    /\ daily_pnl = Zero
    /\ ret = Call("__init__", <<>>, None,
                  IF owner = "AlpacaBroker" THEN NoOrder ELSE None)
    /\ IF owner = "TradingEngine"
       THEN \E r \in Registrations : sc = StrategyConfig(r[1], r[2])
       ELSE sc = None
    /\ trade_log = <<>>
    /\ IF owner = "BacktestEngine"
       THEN \E a \in BacktestArgs, f \in Frames :
                \E st \in Strategies(f) :
                    bt = BacktestEngine(st, f, a[1], a[2], a[3], a[4])
       ELSE bt = None
    /\ IF owner = "BacktestResult"
       THEN \E trades \in Ledgers, curve \in Curves, cash \in StartingCash :
                result = BacktestResult("AAPL", cash, trades, Len(curve), curve)
       ELSE result = None
    /\ IF owner = "AlpacaBroker"
       THEN \E positions \in AccountPositions : broker = AlpacaBroker(positions)
       ELSE broker = None
    /\ IF owner = "TradingEngine.start"
       THEN \E registered \in RegistrationLists : engine = TradingEngine(registered)
       ELSE engine = None
    /\ registry = None

-----------------------------------------------------------------------------
(* PositionManager: one action per method call by client code              *)

CalculatePositionSize ==
    /\ owner = "caller"
    /\ \E e \in SizingEquities, p \in SizingPrices :
        LET r == call_calculate_position_size(
                     config, [account_equity |-> e, entry_price |-> p])
        IN  ret' = Call("calculate_position_size", <<e, p>>, r.raised, r.value)
    /\ UNCHANGED <<owner, config, open_positions, daily_pnl, sc, trade_log, bt, result, broker, engine, registry>>

\* The sizing call that hands over a precomputed stop distance,
\* calculate_position_size(account_equity=e, stop_loss_distance=d), here with
\* d = p * stop_loss_pct.
CalculatePositionSizeFromDistance ==
    /\ owner = "caller"
    /\ \E e \in SizingEquities, p \in SizingPrices :
        LET d == RMul(p, config.stop_loss_pct)
            r == call_calculate_position_size(
                     config, [account_equity |-> e, stop_loss_distance |-> d])
        IN  ret' = Call("calculate_position_size_from_distance", <<e, p>>,
                        r.raised, r.value)
    /\ UNCHANGED <<owner, config, open_positions, daily_pnl, sc, trade_log, bt, result, broker, engine, registry>>

OpenPosition ==
    /\ owner = "caller"
    /\ Len(open_positions) < MaxOpen
    /\ \E s \in Symbols, p \in EntryPrices, q \in Qtys, t \in EntryDates :
        LET position == new_position(config, s, p, q, t)
        IN  /\ open_positions' = Append(open_positions, position)
            /\ ret' = Call("open_position", <<s, p, q>>, None, position)
    /\ UNCHANGED <<owner, config, daily_pnl, sc, trade_log, bt, result, broker, engine, registry>>

CanOpenPosition ==
    /\ owner = "caller"
    /\ \E e \in Equities :
        ret' = Call("can_open_position", <<e>>, None,
                    can_open_position(config, open_positions, daily_pnl, e))
    /\ UNCHANGED <<owner, config, open_positions, daily_pnl, sc, trade_log, bt, result, broker, engine, registry>>

CheckPositionExit ==
    /\ owner = "caller"
    /\ \E s \in Symbols, p \in CheckPrices :
        ret' = Call("check_position_exit", <<s, p>>, None,
                    check_position_exit(open_positions, s, p))
    /\ UNCHANGED <<owner, config, open_positions, daily_pnl, sc, trade_log, bt, result, broker, engine, registry>>

ClosePosition ==
    /\ owner = "caller"
    /\ \E s \in Symbols, p \in ExitPrices :
        LET pnl == close_position_pnl(open_positions, daily_pnl, s, p)
        IN  /\ RLe(pnl, Num(MaxAbsPnl)) /\ RGe(pnl, Num(-MaxAbsPnl))
            /\ daily_pnl' = pnl
            /\ open_positions' = close_position_list(open_positions, s)
            /\ ret' = Call("close_position", <<s, p>>, None, None)
    /\ UNCHANGED <<owner, config, sc, trade_log, bt, result, broker, engine, registry>>

GetNumOpenPositions ==
    /\ owner = "caller"
    /\ ret' = Call("get_num_open_positions", <<>>, None,
                   get_num_open_positions(open_positions))
    /\ UNCHANGED <<owner, config, open_positions, daily_pnl, sc, trade_log, bt, result, broker, engine, registry>>

ResetDailyPnl ==
    /\ owner = "caller"
    /\ daily_pnl' = Zero
    /\ ret' = Call("reset_daily_pnl", <<>>, None, None)
    /\ UNCHANGED <<owner, config, open_positions, sc, trade_log, bt, result, broker, engine, registry>>

InCap(x) == RLe(x, Num(MaxAbsPnl)) /\ RGe(x, Num(-MaxAbsPnl))

\* One strategy cycle of the engine's loop on the registered config.
ExecuteStrategy ==
    /\ owner = "TradingEngine"
    /\ sc.trades_this_session < MaxTrades
    /\ \E in \in CycleInputs :
        \E r \in {execute_strategy(config, open_positions, daily_pnl, sc,
                                   trade_log, in)} :
            /\ InCap(r.pnl) /\ InCap(r.sc.pnl_this_session)
            /\ open_positions' = r.positions
            /\ daily_pnl' = r.pnl
            /\ sc' = r.sc
            /\ trade_log' = r.log
            /\ ret' = Call("_execute_strategy", <<>>, r.raised,
                           [pm_calls |-> r.pm_calls, orders |-> r.orders])
    /\ UNCHANGED <<owner, config, bt, result, broker, engine, registry>>

\* run(symbol) up to the loop: the bars are fetched; without bars the empty
\* result is returned at once.
RunStart ==
    /\ owner = "BacktestEngine"
    /\ bt.pc \in {"idle", "done"}
    /\ \E symbol \in Symbols :
        IF bt.bars.kind = "None" \/ bt.bars.n = 0
        THEN \E r \in {run_no_bars(bt, symbol)} :
                /\ bt' = [bt EXCEPT !.pc = "done"]
                /\ ret' = Call("run", <<symbol>>, r.raised, r.value)
        ELSE /\ bt' = run_begin(bt, symbol)
             /\ ret' = ret
    /\ UNCHANGED <<owner, config, open_positions, daily_pnl, sc, trade_log, result, broker, engine, registry>>

\* One pass of the loop of run(): bar i is given to the strategy and acted on.
RunBar ==
    /\ owner = "BacktestEngine"
    /\ bt.pc = "loop"
    /\ bt.i < bt.bars.n
    /\ bt' = bar_step(bt, config)
    /\ UNCHANGED <<owner, config, open_positions, daily_pnl, ret, sc, trade_log, result, broker, engine, registry>>

\* The end of run(): the forced close, the BacktestResult and its
\* print_summary(), which builds the summary().
RunFinish ==
    /\ owner = "BacktestEngine"
    /\ bt.pc = "loop"
    /\ bt.i >= bt.bars.n
    /\ \E b \in {final_close(bt)} :
        \E res \in {BacktestResult(bt.symbol, bt.starting_cash, b.trades,
                                    bt.bars.n, b.equity_curve)} :
            \E printed \in {summary(res)} :
                /\ bt' = [b EXCEPT !.pc = "done"]
                /\ ret' = IF printed.raised # None
                          THEN Call("run", <<bt.symbol>>, printed.raised, None)
                          ELSE Call("run", <<bt.symbol>>, None, res)
    /\ UNCHANGED <<owner, config, open_positions, daily_pnl, sc, trade_log, result, broker, engine, registry>>

\* Client code asks the BacktestResult it has built for its summary().
Summary ==
    /\ owner = "BacktestResult"
    /\ \E r \in {summary(result)} :
           ret' = Call("summary", <<>>, r.raised, r.value)
    /\ UNCHANGED <<owner, config, open_positions, daily_pnl, sc, trade_log, bt, result, broker, engine, registry>>

\* Client code reads the win_rate property of the BacktestResult.
WinRate ==
    /\ owner = "BacktestResult"
    /\ ret' = Call("win_rate", <<>>, None, win_rate(result))
    /\ UNCHANGED <<owner, config, open_positions, daily_pnl, sc, trade_log, bt, result, broker, engine, registry>>

\* Client code reads the max_drawdown property of the BacktestResult.
MaxDrawdown ==
    /\ owner = "BacktestResult"
    /\ \E r \in {max_drawdown(result)} :
           ret' = Call("max_drawdown", <<>>, r.raised, r.value)
    /\ UNCHANGED <<owner, config, open_positions, daily_pnl, sc, trade_log, bt, result, broker, engine, registry>>

-----------------------------------------------------------------------------
(* Scheduler: one action per static method call                            *)

IsMarketOpen ==
    /\ owner = "Scheduler"
    /\ \E asset_type \in AssetTypes, now \in Instants :
          \E r \in {is_market_open(asset_type, now)} :
              ret' = Call("is_market_open", <<asset_type, now>>, r.raised, r.value)
    /\ UNCHANGED <<owner, config, open_positions, daily_pnl, sc, trade_log, bt, result, broker, engine, registry>>

ShouldRunStrategy ==
    /\ owner = "Scheduler"
    /\ \E asset_type \in AssetTypes, last_run \in LastRuns,
          interval_seconds \in Intervals, now \in Instants :
          \E r \in {should_run_strategy(asset_type, last_run, interval_seconds, now)} :
              ret' = Call("should_run_strategy",
                          <<asset_type, last_run, interval_seconds, now>>,
                          r.raised, r.value)
    /\ UNCHANGED <<owner, config, open_positions, daily_pnl, sc, trade_log, bt, result, broker, engine, registry>>

-----------------------------------------------------------------------------
(* AlpacaBroker: buy, sell, the poll, get_order_details, and the exchange  *)

\* buy(symbol, qty) up to the first pass of the poll; ret holds no order
\* until the poll returns one.
Buy ==
    /\ owner = "AlpacaBroker"
    /\ broker.pc = "idle"
    /\ broker.calls < MaxOrders
    /\ \E symbol \in Symbols, qty \in OrderQtys :
          /\ broker' = submit_order(broker, symbol, "buy", qty)
          /\ ret' = Call("buy", <<symbol, qty>>, None, NoOrder)
    /\ UNCHANGED <<owner, config, open_positions, daily_pnl, sc, trade_log, bt, result, engine, registry>>

\* sell(symbol, qty) up to the first pass of the poll; the engine sells the
\* quantity it holds.
Sell ==
    /\ owner = "AlpacaBroker"
    /\ broker.pc = "idle"
    /\ broker.calls < MaxOrders
    /\ \E symbol \in Symbols :
          /\ RGt(broker.positions[symbol], Zero)
          /\ broker' = submit_order(broker, symbol, "sell", broker.positions[symbol])
          /\ ret' = Call("sell", <<symbol, broker.positions[symbol]>>, None, NoOrder)
    /\ UNCHANGED <<owner, config, open_positions, daily_pnl, sc, trade_log, bt, result, engine, registry>>

\* One pass of the poll of the buy() or sell() in progress; the pass that
\* leaves the loop returns the order from buy() or sell().
WaitForFill ==
    /\ owner = "AlpacaBroker"
    /\ broker.pc = "wait"
    /\ broker' = _wait_for_fill(broker)
    /\ ret' = IF broker'.pc = "returned"
              THEN Call(ret.op, ret.args, None, broker'.order_response)
              ELSE ret
    /\ UNCHANGED <<owner, config, open_positions, daily_pnl, sc, trade_log, bt, result, engine, registry>>

\* get_order_details(order_response, symbol) on the order buy() or sell()
\* has returned.
GetOrderDetails ==
    /\ owner = "AlpacaBroker"
    /\ broker.pc = "returned"
    /\ \E symbol \in {broker.order_response.symbol} :
          /\ ret' = Call("get_order_details", <<broker.order_response, symbol>>, None,
                         get_order_details(broker, broker.order_response, symbol))
          /\ broker' = [broker EXCEPT !._position_before_order[symbol] =
                                          IF _is_crypto(symbol) THEN Absent ELSE @,
                                      !.pc = "idle"]
    /\ UNCHANGED <<owner, config, open_positions, daily_pnl, sc, trade_log, bt, result, engine, registry>>

\* The exchange fills more of the open order, during the poll or after it.
ExchangeFill ==
    /\ owner = "AlpacaBroker"
    /\ broker.order.status \in {"new", "partially_filled"}
    /\ \E f \in FillFractions, price \in FillPrices :
          /\ RGt(RMul(f, broker.order.qty), broker.order.filled_qty)
          /\ broker' = exchange_fill(broker, RMul(f, broker.order.qty), price)
    /\ UNCHANGED <<owner, config, open_positions, daily_pnl, ret, sc, trade_log, bt, result, engine, registry>>

BrokerNext == Buy \/ Sell \/ WaitForFill \/ GetOrderDetails \/ ExchangeFill

-----------------------------------------------------------------------------
(* TradingEngine: start() and stop() by client code, the loop threads       *)

\* start(); ret.value is the notice it prints.
Start ==
    /\ owner = "TradingEngine.start"
    /\ engine.main = "idle"
    /\ engine.is_running \/ Len(engine.threads) < MaxThreads
    /\ engine' = start(engine)
    /\ ret' = Call("start", <<>>, None,
                   IF engine.is_running THEN "Engine already running"
                   ELSE "TradingEngine started")
    /\ UNCHANGED <<owner, config, open_positions, daily_pnl, sc, trade_log, bt, result, broker, registry>>

\* stop() up to engine_thread.join.
Stop ==
    /\ owner = "TradingEngine.start"
    /\ engine.main = "idle"
    /\ engine' = stop(engine)
    /\ ret' = Call("stop", <<>>, None,
                   IF ~engine.is_running THEN "Engine not running"
                   ELSE IF engine'.main = "join" THEN "Stopping TradingEngine..."
                   ELSE "TradingEngine stopped...")
    /\ UNCHANGED <<owner, config, open_positions, daily_pnl, sc, trade_log, bt, result, broker, registry>>

\* stop() inside engine_thread.join(timeout = 5): a second passes, or join
\* and stop() return.  A loop thread that is not inside a cycle reaches its
\* while test before a second of the timeout is over (it sleeps 1 second at
\* most); one inside a cycle can stay there for the 30 seconds of a fill
\* poll.
Join ==
    /\ owner = "TradingEngine.start"
    /\ engine.main = "join"
    /\ \/ engine.threads[engine.engine_thread].pc \in {"cycle", "exited"}
       \/ engine.joined >= join_timeout
    /\ engine' = join(engine)
    /\ ret' = IF engine'.main = "idle"
              THEN Call("stop", <<>>, None, "TradingEngine stopped...")
              ELSE ret
    /\ UNCHANGED <<owner, config, open_positions, daily_pnl, sc, trade_log, bt, result, broker, registry>>

\* The loop thread t at its while test.
LoopTestAt(t) ==
    /\ owner = "TradingEngine.start"
    /\ t \in 1..Len(engine.threads)
    /\ engine.threads[t].pc = "test"
    /\ engine' = loop_test(engine, t)
    /\ UNCHANGED <<owner, config, open_positions, daily_pnl, ret, sc, trade_log, bt, result, broker, registry>>

LoopTest == \E t \in 1..MaxThreads : LoopTestAt(t)

\* The loop thread t at the next config of _execute_all_strategies.
AdmitAt(t) ==
    /\ owner = "TradingEngine.start"
    /\ t \in 1..Len(engine.threads)
    /\ engine.threads[t].pc = "admit"
    /\ engine' = admit(engine, t, EngineInterval, EngineNow)
    /\ UNCHANGED <<owner, config, open_positions, daily_pnl, ret, sc, trade_log, bt, result, broker, registry>>

Admit == \E t \in 1..MaxThreads : AdmitAt(t)

\* A loop thread returns from _execute_strategy.
Cycle ==
    /\ owner = "TradingEngine.start"
    /\ \E t \in 1..Len(engine.threads), outcome \in CycleOutcomes :
          /\ engine.threads[t].pc = "cycle"
          /\ engine' = cycle(engine, t, outcome, EngineNow)
    /\ UNCHANGED <<owner, config, open_positions, daily_pnl, ret, sc, trade_log, bt, result, broker, registry>>

\* add_strategy called by a thread of client code, whatever the loop threads
\* are doing, for a symbol that is not registered.
AddStrategy ==
    /\ owner = "TradingEngine.start"
    /\ \E r \in LateRegistrations :
          /\ \A k \in 1..Len(engine.strategies) :
                 engine.strategies[k].symbol # r[1]
          /\ engine' = add_strategy_to(engine, r[1], r[2])
    /\ ret' = Call("add_strategy", <<>>, None, "Registered strategy")
    /\ UNCHANGED <<owner, config, open_positions, daily_pnl, sc, trade_log, bt, result, broker, registry>>

EngineNext == Start \/ Stop \/ Join \/ LoopTest \/ Admit \/ Cycle \/ AddStrategy

Next ==
    \/ ExecuteStrategy
    \/ RunStart
    \/ RunBar
    \/ RunFinish
    \/ Summary
    \/ WinRate
    \/ MaxDrawdown
    \/ CalculatePositionSize
    \/ CalculatePositionSizeFromDistance
    \/ OpenPosition
    \/ CanOpenPosition
    \/ CheckPositionExit
    \/ ClosePosition
    \/ GetNumOpenPositions
    \/ ResetDailyPnl
    \/ IsMarketOpen
    \/ ShouldRunStrategy
    \/ Buy
    \/ Sell
    \/ WaitForFill
    \/ GetOrderDetails
    \/ ExchangeFill
    \/ Start
    \/ Stop
    \/ Join
    \/ LoopTest
    \/ Admit
    \/ Cycle
    \/ AddStrategy

Spec == Init /\ [][Next]_vars

\* The AlpacaBroker alone, where the thread that is inside buy() or sell()
\* keeps running: time.sleep(0.2) and get_order_by_id return.
\* The TradingEngine that is started and stopped, alone, where the thread
\* that is inside stop() keeps running (a second of join's timeout passes)
\* and so does every loop thread that is not inside a cycle.
EngineInit == Init /\ owner = "TradingEngine.start"
EngineSpec ==
    /\ EngineInit
    /\ [][EngineNext]_vars
    /\ WF_engine(Join)
    /\ \A t \in 1..MaxThreads : WF_engine(LoopTestAt(t)) /\ WF_engine(AdmitAt(t))

\* The cycles of one registered config, alone.
CycleInit == Init /\ owner = "TradingEngine"
CycleSpec == CycleInit /\ [][ExecuteStrategy]_vars

BrokerInit == Init /\ owner = "AlpacaBroker"
BrokerSpec ==
    /\ BrokerInit
    /\ [][BrokerNext]_vars
    /\ WF_broker(WaitForFill)

-----------------------------------------------------------------------------
(* TradingEngine.strategies: several registered configs, each with the     *)
(* strategy and the PositionManager its StrategyConfig refers to           *)

\* PositionManager(risk_config): the object a StrategyConfig refers to.
PositionManager == [open_positions |-> <<>>, daily_pnl |-> Zero]

\* TradingEngine.__init__ with the PositionManager objects client code has
\* built: strategies[k] is the k-th StrategyConfig registered, strategy[k] its
\* strategy object and position_manager[k] the index in managers of the
\* PositionManager it refers to.
Registry(managers) ==
    [strategies |-> <<>>, strategy |-> <<>>, position_manager |-> <<>>,
     managers |-> managers]

\* add_strategy(symbol, strategy, risk_config, position_manager, asset_type).
add_strategy(reg, symbol, strategy, position_manager, asset_type) ==
    [reg EXCEPT !.strategies = Append(@, StrategyConfig(symbol, asset_type)),
                !.strategy = Append(@, strategy),
                !.position_manager = Append(@, position_manager)]

\* A cycle that works on the first PositionManager whatever the config.
execute_registered_on_first(reg, cfg, log, k, in) ==
    LET pm == reg.managers[1]
        signal == evaluate_signal(reg.strategy[k], 0)
        r == execute_strategy(cfg, pm.open_positions, pm.daily_pnl,
                              reg.strategies[k], log,
                              [in EXCEPT !.signal = signal])
    IN  [registry |-> [reg EXCEPT
                          !.strategies[k] = r.sc,
                          !.strategy[k] = evaluated(@),
                          !.managers[1] = [open_positions |-> r.positions,
                                           daily_pnl |-> r.pnl]],
         log |-> r.log, raised |-> r.raised]

\* A cycle that reads the strategy's signal and leaves its call_count alone.
execute_registered_same_signal(reg, cfg, log, k, in) ==
    LET ref == reg.position_manager[k]
        pm == reg.managers[ref]
        signal == evaluate_signal(reg.strategy[k], 0)
        r == execute_strategy(cfg, pm.open_positions, pm.daily_pnl,
                              reg.strategies[k], log,
                              [in EXCEPT !.signal = signal])
    IN  [registry |-> [reg EXCEPT
                          !.strategies[k] = r.sc,
                          !.managers[ref] = [open_positions |-> r.positions,
                                             daily_pnl |-> r.pnl]],
         log |-> r.log, raised |-> r.raised]

\* _execute_strategy(config) for the k-th registered config: the signal comes
\* from config.strategy, which is called once bars have arrived, and the
\* cycle works on config.position_manager.
execute_registered(reg, cfg, log, k, in) ==
    LET ref == reg.position_manager[k]
        pm == reg.managers[ref]
        called == in.fault # "get_bars" /\ in.bars = "ok"
        signal == evaluate_signal(reg.strategy[k], 0)
        r == execute_strategy(cfg, pm.open_positions, pm.daily_pnl,
                              reg.strategies[k], log,
                              [in EXCEPT !.signal = signal])
    IN  [registry |-> [reg EXCEPT
                          !.strategies[k] = r.sc,
                          !.strategy[k] = IF called THEN evaluated(@) ELSE @,
                          !.managers[ref] = [open_positions |-> r.positions,
                                             daily_pnl |-> r.pnl]],
         log |-> r.log, raised |-> r.raised]

\* The RiskConfig of test_engine_with_test_strategy, with room for two
\* positions.
RegistryRiskArgs ==
    <<Rat(2, 100), Rat(5, 100), Rat(10, 100), Num(5), Num(2), Rat(5, 100)>>

\* What the collaborators of a cycle give: no bars, or bars and then an
\* account value, a quote and the reconciled fill of the order, or an
\* exception from get_order_details.
RegistryFills ==
    {NoFill} \cup {[frac |-> One, price |-> p] : p \in {Num(40), Num(60)}}
RegistryInputs ==
    {CycleInput(None, "empty", "hold", Num(100), NoQuote, NoFill, t) : t \in Times}
    \cup {CycleInput(f, "ok", "hold", a, q, x, t) :
            f \in {None, "get_order_details"}, a \in AccountValues,
            q \in Quotes, x \in RegistryFills, t \in Times}

MaxCycleTrades == 2     \* no registered config is run once it has made this many trades

\* The references client code passes for the two configs: a PositionManager
\* each, or one for both.
ManagerRefs == {<<1, 2>>, <<1, 1>>}

\* Two add_strategy calls on a new engine, each config with a TestStrategy of
\* its own.
RegistryInit ==
    /\ owner = "TradingEngine.strategies"
    /\ config = RiskConfig(RegistryRiskArgs[1], RegistryRiskArgs[2],
                           RegistryRiskArgs[3], RegistryRiskArgs[4],
                           RegistryRiskArgs[5], RegistryRiskArgs[6])
    /\ open_positions = <<>>
    /\ daily_pnl = Zero
    /\ ret = Call("__init__", <<>>, None, None)
    /\ sc = None
    /\ trade_log = <<>>
    /\ bt = None
    /\ result = None
    /\ broker = None
    /\ engine = None
    /\ \E refs \in ManagerRefs :
        registry = add_strategy(
                       add_strategy(Registry(<<PositionManager, PositionManager>>),
                                    "AAPL", TestStrategy(0), refs[1], "stock"),
                       "XRP/USD", TestStrategy(0), refs[2], "crypto")

\* One cycle of one registered config.
ExecuteRegistered ==
    /\ owner = "TradingEngine.strategies"
    /\ \E k \in 1..Len(registry.strategies), in \in RegistryInputs :
        /\ registry.strategies[k].trades_this_session < MaxCycleTrades
        /\ \E r \in {execute_registered(registry, config, trade_log, k, in)} :
            /\ registry' = r.registry
            /\ trade_log' = r.log
            /\ ret' = Call("_execute_strategy", <<k>>, r.raised, None)
    /\ UNCHANGED <<owner, config, open_positions, daily_pnl, sc, bt, result,
                   broker, engine>>

RegistryNext == ExecuteRegistered

RegistrySpec == RegistryInit /\ [][RegistryNext]_vars

-----------------------------------------------------------------------------
(* Properties                                                              *)

IsCall(op) == ret.op = op

\* A risk parameter is usable when it is positive.
AllPositive(cfg) ==
    /\ RGt(cfg.risk_per_trade, Zero)
    /\ RGt(cfg.stop_loss_pct, Zero)
    /\ RGt(cfg.take_profit_pct, Zero)
    /\ RGt(cfg.max_position_size, Zero)
    /\ RGt(cfg.max_positions_open, Zero)
    /\ RGt(cfg.max_daily_loss_pct, Zero)

\* C1: with stop_loss_pct > 0, calculate_position_size returns a quantity q
\* with 0 <= q <= max_position_size, for every account_equity and entry_price.
C1_SizeWithinBounds ==
    (IsCall("calculate_position_size") /\ RGt(config.stop_loss_pct, Zero))
        => /\ ret.raised = None
           /\ RLe(Zero, ret.value)
           /\ RLe(ret.value, config.max_position_size)

\* The quotient (account_equity * risk_per_trade) / (entry_price * stop_loss_pct)
\* of a sizing call whose stop distance is positive.
SizingQuotient(cfg, e, p) ==
    RDiv(RMul(e, cfg.risk_per_trade), RMul(p, cfg.stop_loss_pct))

\* Rounding toward zero: the floor of a quotient >= 0, the ceiling of one < 0.
TowardZero(a) == IF RGe(a, Zero) THEN Floor(a) ELSE RNeg(Floor(RNeg(a)))

\* q capped at max_position_size.
Capped(cfg, q) == IF RLt(cfg.max_position_size, q) THEN cfg.max_position_size ELSE q

\* What a sizing call returns when the quotient is rounded down.
FloorSize(cfg, e, p) ==
    IF RLe(RMul(p, cfg.stop_loss_pct), Zero)
    THEN Zero
    ELSE Capped(cfg, Floor(SizingQuotient(cfg, e, p)))

\* What a sizing call returns when the quotient is rounded toward zero.
TruncatedSize(cfg, e, p) ==
    IF RLe(RMul(p, cfg.stop_loss_pct), Zero)
    THEN Zero
    ELSE Capped(cfg, TowardZero(SizingQuotient(cfg, e, p)))

\* The scenario: risk_per_trade 0.02, stop_loss_pct 0.05, max_position_size
\* 100, equity 100000, entry_price 50 gives 100.
SizingScenario ==
    (/\ config.risk_per_trade = Rat(2, 100)
     /\ config.stop_loss_pct = Rat(5, 100)
     /\ config.max_position_size = Num(100)
     /\ ret.args = <<Num(100000), Num(50)>>) => ret.value = Num(100)

C3_DistanceEntryPoint ==
    IsCall("calculate_position_size_from_distance")
        => /\ ret.raised = None
           /\ ret.value = calculate_position_size(config, ret.args[1], ret.args[2])

\* C4: can_open_position returns false whenever the number of open positions
\* equals max_positions_open, for any daily_pnl and any account_equity.
C4_NoOpenAtMax ==
    (IsCall("can_open_position")
        /\ Num(Len(open_positions)) = config.max_positions_open)
        => ret.value = FALSE

\* can_open_position was called with the list exactly full and no loss made.
C4_Witness ==
    /\ IsCall("can_open_position")
    /\ Num(Len(open_positions)) = config.max_positions_open
    /\ RGt(daily_pnl, Zero)
    /\ ret.value = FALSE

\* The daily loss limit is passed for account_equity e.
Breached(pnl, cfg, e) == RLt(pnl, RNeg(RMul(e, cfg.max_daily_loss_pct)))

\* C5: once daily_pnl is below -(account_equity * max_daily_loss_pct),
\* can_open_position(account_equity) stays false until reset_daily_pnl is
\* called, whatever open_position and close_position calls come in between.
\* Stated for one step, and for a RiskConfig whose parameters are all
\* positive: if the limit is passed before a call other than reset_daily_pnl,
\* can_open_position is false after it.
C5_BreakerLatched ==
    [][\A e \in Equities :
          (/\ AllPositive(config)
           /\ Breached(daily_pnl, config, e)
           /\ ret'.op # "reset_daily_pnl")
              => ~can_open_position(config', open_positions', daily_pnl', e)]_vars

\* The positions of a list that are not of the symbol, in list order.
RECURSIVE Others(_, _)
Others(positions, symbol) ==
    IF positions = <<>> THEN <<>>
    ELSE IF Head(positions).symbol = symbol
         THEN Others(Tail(positions), symbol)
         ELSE <<Head(positions)>> \o Others(Tail(positions), symbol)

\* C6: close_position(symbol, exit_price) removes exactly the open positions
\* of the symbol and leaves every other position as it was; a second
\* close_position for the same symbol changes neither open_positions nor
\* daily_pnl.
C6_CloseRemovesMatching ==
    [][ret'.op = "close_position" =>
          /\ open_positions' = Others(open_positions, ret'.args[1])
          /\ \A i \in 1..Len(open_positions') :
                open_positions'[i].symbol # ret'.args[1]
          /\ (ret.op = "close_position" /\ ret.args[1] = ret'.args[1])
                => (open_positions' = open_positions /\ daily_pnl' = daily_pnl)]_vars

\* A close_position call has realized a pnl and left a position of another
\* symbol in the list.
C6_Witness ==
    /\ IsCall("close_position")
    /\ daily_pnl # Zero
    /\ Len(open_positions) >= 1
    /\ \A i \in 1..Len(open_positions) : open_positions[i].symbol # ret.args[1]

\* C7: after any sequence of TradingEngine strategy cycles, the registered
\* config's PositionManager holds at most one open Position for the config's
\* symbol.
C7_OnePositionPerSymbol ==
    owner = "TradingEngine"
        => Cardinality(Matching(open_positions, sc.symbol)) <= 1

\* C8: every Position created by open_position with entry_price > 0 has
\* stop_loss_price < entry_price < take_profit_price, stop_loss_price =
\* entry_price * (1 - stop_loss_pct) and take_profit_price = entry_price *
\* (1 + take_profit_pct), for every RiskConfig that can be constructed.
C8_StopBelowEntryBelowTarget ==
    \A i \in 1..Len(open_positions) :
        LET pos == open_positions[i]
        IN  RGt(pos.entry_price, Zero)
                => /\ RLt(pos.stop_loss_price, pos.entry_price)
                   /\ RLt(pos.entry_price, pos.take_profit_price)
                   /\ pos.stop_loss_price =
                          RMul(pos.entry_price, RSub(One, config.stop_loss_pct))
                   /\ pos.take_profit_price =
                          RMul(pos.entry_price, RAdd(One, config.take_profit_pct))

\* The calls a strategy cycle made on its PositionManager include op.
Called(call, op) ==
    \E k \in 1..Len(call.value.pm_calls) : call.value.pm_calls[k] = op

\* Closing pos at exit_price realises this pnl.
RealisedPnl(pos, exit_price) ==
    RMul(RSub(exit_price, pos.entry_price), pos.qty)

\* The step closed an open position of the symbol and added the pnl it
\* realised at one of the given exit prices to daily_pnl.
AddsRealisedPnl(symbol, exit_prices) ==
    /\ Matching(open_positions, symbol) # {}
    /\ Matching(open_positions', symbol) = {}
    /\ \E i \in Matching(open_positions, symbol), p \in exit_prices :
           daily_pnl' = RAdd(daily_pnl, RealisedPnl(open_positions[i], p))

\* C9: daily_pnl is changed only by close_position, which adds the realised
\* pnl of a position it closes, and by an explicit reset_daily_pnl call, which
\* sets it to 0; every other PositionManager method leaves it unchanged, a
\* TradingEngine cycle changes it only through a close_position call and never
\* calls reset_daily_pnl, and a BacktestEngine run never changes it.
C9_DailyPnlFrame ==
    [][ /\ daily_pnl' # daily_pnl =>
            \/ /\ ret'.op = "close_position"
               /\ AddsRealisedPnl(ret'.args[1], {ret'.args[2]})
            \/ /\ ret'.op = "reset_daily_pnl"
               /\ daily_pnl' = Zero
            \/ /\ ret'.op = "_execute_strategy"
               /\ Called(ret', "close_position")
               /\ AddsRealisedPnl(sc.symbol, {f.price : f \in Fills \ {NoFill}})
        /\ ret'.op = "_execute_strategy" => ~Called(ret', "reset_daily_pnl")
        /\ owner = "BacktestEngine" => daily_pnl' = daily_pnl
      ]_vars

\* A strategy cycle opened a position while the daily pnl realised by an
\* earlier close stood at a non-zero value, and left that value in place.
C9_Witness ==
    /\ ret.op = "_execute_strategy"
    /\ Called(ret, "open_position")
    /\ daily_pnl # Zero

\* C10: constructing a RiskConfig with a non-positive risk parameter fails, so
\* no RiskConfig object with such a parameter exists.
C10_ConfigValidated == AllPositive(config)

-----------------------------------------------------------------------------
(* BacktestEngine.run and BacktestResult                                   *)

\* A run() of the BacktestEngine is in its loop or has returned.
Running == owner = "BacktestEngine" /\ bt.pc \in {"loop", "done"}

\* C11: in BacktestEngine.run the simulated cash balance is never negative
\* after any bar, for crypto and stock symbols alike.
C11_CashNeverNegative == Running => RGe(bt.cash, Zero)

\* The step is one pass of the loop of run().
BarStep ==
    /\ owner = "BacktestEngine"
    /\ bt.pc = "loop"
    /\ bt'.pc = "loop"
    /\ bt'.i = bt.i + 1

\* C12: a sell signal on a bar where no position is held, and a buy signal on
\* a bar where a position is held, leave cash, position_qty and the trade
\* ledger unchanged; only that bar's EquityPoint is appended.
C12_NoOpBarsChangeNothing ==
    [][ (/\ BarStep
         /\ \/ bt'.signal = "sell" /\ bt.position_qty = Zero
            \/ bt'.signal = "buy" /\ bt.position_qty # Zero)
        => /\ bt'.cash = bt.cash
           /\ bt'.position_qty = bt.position_qty
           /\ bt'.trades = bt.trades
           /\ bt'.equity_curve =
                  Append(bt.equity_curve,
                         [equity |-> RAdd(bt.cash,
                                          RMul(bt.position_qty,
                                               close_at(bt.bars, bt.i)))])
      ]_vars

\* The loop has just passed a bar with a buy signal while holding a position
\* bought on an earlier bar.
C12_Witness ==
    /\ owner = "BacktestEngine"
    /\ bt.pc = "loop"
    /\ bt.signal = "buy"
    /\ bt.position_qty # Zero
    /\ bt.entry_time < bt.i - 1

\* run() has returned the result of a frame with bars after the warm-up.
Returned ==
    /\ owner = "BacktestEngine"
    /\ bt.pc = "done"
    /\ bt.bars.n > WarmUp

Last(seq) == seq[Len(seq)]

\* C13: every run ends flat: a position still held after the last bar is
\* closed at the final bar and has its Trade in the ledger, and the final
\* equity the run reports is the cash after that close, with no open
\* position left in it.
C13_RunEndsFlat ==
    Returned =>
        /\ bt.position_qty # Zero =>
              /\ bt.trades # <<>>
              /\ Last(bt.trades).entry_time = bt.entry_time
              /\ Last(bt.trades).exit_time = bt.bars.n - 1
        /\ Last(ret.value.equity_curve).equity = bt.cash

\* The sell-side fill price of bar i.
SellPrice(b, i) == RMul(close_at(b.bars, i), RSub(One, b.slippage_pct))

\* C14: every Trade in the ledger, closed by a sell signal or by the forced
\* final close, has exit_price = close of its exit bar * (1 - slippage_pct)
\* and pnl = (exit_price - entry_price) * qty - commission.
C14_TradePnlIdentity ==
    (owner = "BacktestEngine") =>
        \A k \in 1..Len(bt.trades) :
            LET t == bt.trades[k]
            IN  /\ t.exit_price = SellPrice(bt, t.exit_time)
                /\ t.pnl = RSub(RMul(RSub(t.exit_price, t.entry_price), t.qty),
                                t.commission)

\* C15: for every BacktestResult produced by run, final equity (the last
\* EquityPoint of the curve) minus starting_cash equals total_pnl minus
\* total_commission.
C15_EquityMatchesLedger ==
    Returned =>
        RSub(Last(ret.value.equity_curve).equity, ret.value.starting_cash)
            = RSub(total_pnl(ret.value), total_commission(ret.value))

\* The step is the return of a run() that follows an earlier run() of the
\* same engine for the same symbol; the engine's bars, strategy object and
\* config are the same in both.
RunRepeated ==
    /\ owner = "BacktestEngine"
    /\ bt.pc = "loop"
    /\ bt'.pc = "done"
    /\ ret.op = "run"
    /\ ret'.op = "run"
    /\ ret'.args = ret.args

\* C16: two runs over identical bars, strategy and config produce identical
\* trade ledgers, also when the run is repeated on the same engine and
\* strategy objects.
C16_RunsAreDeterministic ==
    [][RunRepeated => ret'.value.trades = ret.value.trades]_vars

\* C17: run makes no trading decision on the first 20 bars: the strategy is
\* never evaluated on a window that ends inside the warm-up, no Trade has an
\* entry_time among the first 20 bars, and a frame of 20 or fewer bars yields
\* no trades and an empty equity curve.
C17_WarmUpExcluded ==
    (owner = "BacktestEngine") =>
        /\ bt.pc = "loop" => bt.i >= WarmUp
        /\ bt.signal # None => bt.i - 1 >= WarmUp
        /\ \A k \in 1..Len(bt.trades) : bt.trades[k].entry_time >= WarmUp
        /\ (bt.pc = "done" /\ bt.bars.kind = "ok" /\ bt.bars.n <= WarmUp) =>
              /\ ret.op = "run"
              /\ ret.value.trades = <<>>
              /\ ret.value.equity_curve = <<>>

\* A run has returned a ledger whose first Trade was entered on the first bar
\* after the warm-up.
C17_Witness ==
    /\ owner = "BacktestEngine"
    /\ bt.pc = "done"
    /\ bt.trades # <<>>
    /\ bt.trades[1].entry_time = WarmUp

\* C18: the equity curve has exactly one EquityPoint per processed bar, each
\* equal to cash + position_qty * that bar's close after the bar's action,
\* and the length of the curve equals the result's bars_processed.
C18_EquityCurveComplete ==
    (owner = "BacktestEngine") =>
        /\ (bt.pc = "loop" /\ bt.equity_curve # <<>>) =>
              Last(bt.equity_curve).equity =
                  RAdd(bt.cash, RMul(bt.position_qty, close_at(bt.bars, bt.i - 1)))
        /\ bt.pc = "done" =>
              Len(ret.value.equity_curve) = ret.value.bars_processed

\* The data provider has no bars: it returns None or an empty frame.
NoBars == bt.bars.kind = "None" \/ bt.bars.n = 0

\* C19: when the data provider returns no bars, run raises nothing and returns
\* the empty result: no trades, an empty equity curve, bars_processed = 0 and
\* the configured starting_cash, for which total_pnl = 0, win_rate = 0.0 and
\* max_drawdown = 0.0.
C19_EmptyDataSentinel ==
    (owner = "BacktestEngine" /\ bt.pc = "done" /\ NoBars) =>
        /\ ret.op = "run"
        /\ ret.raised = None
        /\ ret.value = BacktestResult(ret.args[1], bt.starting_cash, <<>>, 0, <<>>)
        /\ total_pnl(ret.value) = Zero
        /\ win_rate(ret.value) = Zero
        /\ max_drawdown(ret.value) = [raised |-> None, value |-> Zero]

\* A run over a provider that returned None has returned.
C19_Witness ==
    /\ owner = "BacktestEngine"
    /\ bt.pc = "done"
    /\ bt.bars.kind = "None"
    /\ ret.op = "run"

\* The number of trades of the ledger whose pnl is above zero.
Wins(ledger) == Cardinality({k \in 1..Len(ledger) : ledger[k].pnl[1] > 0})

\* C20: win_rate equals (number of trades with pnl > 0) / total_trades for
\* every non-empty ledger and is exactly 0.0, without dividing by zero, for
\* an empty ledger.
C20_WinRate ==
    (owner = "BacktestResult" /\ ret.op = "win_rate") =>
        /\ ret.raised = None
        /\ IF result.trades = <<>>
           THEN ret.value = Zero
           ELSE RMul(ret.value, Num(Len(result.trades))) = Num(Wins(result.trades))

\* win_rate has been read from a ledger of three trades, one of them a win
\* and one with a pnl of exactly zero.
C20_Witness ==
    /\ owner = "BacktestResult"
    /\ ret.op = "win_rate"
    /\ Len(result.trades) = 3
    /\ ret.value = Rat(1, 3)
    /\ \E k \in 1..3 : result.trades[k].pnl = Zero

-----------------------------------------------------------------------------
(* Properties of BacktestResult.max_drawdown                               *)

\* The highest equity among the first k points of the curve.
RunningPeak(curve, k) ==
    CHOOSE p \in {curve[j].equity : j \in 1..k} :
        \A j \in 1..k : RLe(curve[j].equity, p)

NonDecreasing(curve) ==
    \A k \in 1..Len(curve) - 1 : RLe(curve[k].equity, curve[k + 1].equity)

\* The drawdown at the k-th point, measured from the running peak.
DrawdownAt(curve, k) ==
    RDiv(RSub(RunningPeak(curve, k), curve[k].equity), RunningPeak(curve, k))

\* C21: max_drawdown is the largest (running_peak - equity) / running_peak
\* over the equity curve; it is 0.0 for every empty or non-decreasing curve
\* and 0.10 for the curve [100000, 90000, 95000].
C21_MaxDrawdown ==
    (owner = "BacktestResult" /\ ret.op = "max_drawdown") =>
        /\ ret.raised = None
        /\ \E curve \in {result.equity_curve} :
              IF curve = <<>> \/ NonDecreasing(curve)
              THEN ret.value = Zero
              ELSE /\ \A k \in 1..Len(curve) : RLe(DrawdownAt(curve, k), ret.value)
                   /\ \E k \in 1..Len(curve) : DrawdownAt(curve, k) = ret.value
        /\ result.equity_curve = EquityPoints(<<100000, 90000, 95000>>) =>
              ret.value = Rat(1, 10)

-----------------------------------------------------------------------------
(* Properties of the Scheduler                                             *)

IsStock(asset_type) == asset_type \in {"stock", "Stock", "STOCK"}
IsCrypto(asset_type) == asset_type \in {"crypto", "Crypto", "CRYPTO"}

\* Monday to Friday, from 09:30 up to but not including 16:00, by the clock
\* face of the instant.
InStockHours(dt) ==
    LET hour == dt[2] \div 3600
        minute == (dt[2] % 3600) \div 60
    IN  /\ dt[1] % 7 \in 0..4
        /\ hour > 9 \/ (hour = 9 /\ minute >= 30)
        /\ hour < 16

\* C22: is_market_open is true for crypto at every instant; for stock it is
\* true iff the day is Monday-Friday and 09:30 <= t < 16:00 in the exchange
\* timezone; for any other asset type it raises instead of returning.
C22_MarketHours ==
    (owner = "Scheduler" /\ ret.op = "is_market_open") =>
        \E asset_type \in {ret.args[1]}, now \in {ret.args[2]} :
            IF IsCrypto(asset_type)
            THEN ret.raised = None /\ ret.value = TRUE
            ELSE IF IsStock(asset_type)
            THEN ret.raised = None /\ (ret.value <=> InStockHours(now))
            ELSE ret.raised # None

\* is_market_open("stock") has answered false on a Monday at 16:00:00.
C22_Witness ==
    /\ owner = "Scheduler"
    /\ ret.op = "is_market_open"
    /\ ret.args = <<"stock", Datetime(0, 57600)>>
    /\ ret.raised = None
    /\ ret.value = FALSE

\* Whether the market for the asset type is open at the instant; only asked
\* of stock and crypto.
MarketOpen(asset_type, now) == IsCrypto(asset_type) \/ InStockHours(now)

\* C23: should_run_strategy is false whenever the market for the asset type
\* is closed; otherwise true when last_run is unset, and otherwise true iff
\* now - last_run >= interval_seconds; should_run_strategy("crypto", None,
\* 300) is true at every time.
C23_ShouldRun ==
    (owner = "Scheduler" /\ ret.op = "should_run_strategy") =>
        \E asset_type \in {ret.args[1]}, last_run \in {ret.args[2]},
           interval_seconds \in {ret.args[3]}, now \in {ret.args[4]} :
            (IsStock(asset_type) \/ IsCrypto(asset_type)) =>
                /\ ret.raised = None
                /\ IF ~MarketOpen(asset_type, now) THEN ret.value = FALSE
                   ELSE IF last_run = NoDatetime THEN ret.value = TRUE
                   ELSE ret.value <=>
                            (now[1] - last_run[1]) * 86400 + now[2] - last_run[2]
                                >= interval_seconds
                /\ (asset_type = "crypto" /\ last_run = NoDatetime
                        /\ interval_seconds = 300) => ret.value = TRUE

\* should_run_strategy has answered true in an open market exactly
\* interval_seconds after last_run.
C23_Witness ==
    /\ owner = "Scheduler"
    /\ ret.op = "should_run_strategy"
    /\ ret.args = <<"stock", Datetime(0, 34200), 300, Datetime(0, 34500)>>
    /\ ret.raised = None
    /\ ret.value = TRUE

-----------------------------------------------------------------------------
(* Properties of the TradingEngine loop                                     *)

\* C24: every executed strategy cycle sets config.last_run to the current
\* time when it ends, whether it traded, held, stopped on empty or missing
\* bars, or raised in any of its steps.
C24_LastRunAlwaysSet ==
    [][ (owner = "TradingEngine" /\ ret'.op = "_execute_strategy") =>
            sc'.last_run \in Times
      ]_vars

-----------------------------------------------------------------------------
(* Properties of the AlpacaBroker                                          *)

\* The step is get_order_details returning.
DetailsReturned ==
    /\ owner = "AlpacaBroker"
    /\ broker.pc = "returned"
    /\ broker'.pc = "idle"

\* C26: for a crypto symbol the reported filled_qty is the change of the
\* account's position between the snapshot taken just before the order was
\* submitted and the position read afterwards (after - before for a buy,
\* before - after for a sell), whatever the order's own filled quantity
\* says; for any other symbol it is the order's own filled quantity.
C26_FillReconciliation ==
    [][ DetailsReturned =>
            \E order \in {broker.order_response} :
                ret'.value.filled_qty =
                    IF order.symbol = "XRP/USD"
                    THEN IF order.side = "buy"
                         THEN RSub(broker.positions[order.symbol], broker.held_at_submit)
                         ELSE RSub(broker.held_at_submit, broker.positions[order.symbol])
                    ELSE order.filled_qty
      ]_vars

\* get_order_details has reported 1.995 for a crypto buy whose order says 2
\* were filled.
C26_Witness ==
    /\ owner = "AlpacaBroker"
    /\ ret.op = "get_order_details"
    /\ ret.args[2] = "XRP/USD"
    /\ ret.args[1].side = "buy"
    /\ ret.args[1].filled_qty = Num(2)
    /\ ret.value.filled_qty = Rat(399, 200)

\* The step is one pass of the poll, not the exchange filling the order.
PollPass ==
    /\ owner = "AlpacaBroker"
    /\ broker.pc = "wait"
    /\ broker'.order = broker.order
    /\ broker' # broker

\* C27: the fill-confirmation poll always terminates: it returns as soon as
\* a pass finds the order filled or partially filled, and once the timeout
\* of 30 seconds has elapsed it returns the order as currently reported;
\* the order is submitted exactly once and never again.
C27_PollTerminates ==
    /\ [][ PollPass =>
             /\ (broker.order.status \in {"filled", "partially_filled"}
                    \/ broker.polls >= 30 * 5) =>
                   /\ broker'.pc = "returned"
                   /\ broker'.order_response = broker.order
             /\ broker'.submitted = broker.submitted
         ]_broker
    /\ [](owner = "AlpacaBroker" =>
             /\ broker.polls <= 30 * 5
             /\ broker.pc \in {"wait", "returned"} => broker.submitted = 1)
    /\ (owner = "AlpacaBroker" /\ broker.pc = "wait") ~> (broker.pc = "returned")

\* buy() or sell() has returned an order that is still unfilled: the poll
\* ran into its timeout.
C27_Witness ==
    /\ owner = "AlpacaBroker"
    /\ broker.pc = "returned"
    /\ broker.order_response.status = "new"
    /\ broker.submitted = 1

-----------------------------------------------------------------------------
(* Properties of TradingEngine.start, stop and the loop                    *)

Started == owner = "TradingEngine.start"

\* The k-th config is enabled and the Scheduler says it is due.
Due(e, k) ==
    /\ e.strategies[k].enabled
    /\ \E r \in {should_run_strategy(e.strategies[k].asset_type,
                                      e.strategies[k].last_run,
                                      EngineInterval, EngineNow)} :
           r.raised = None /\ r.value

\* C25: within one tick, a failure while handling one config (empty or
\* missing bars, or an exception anywhere in its handling, the scheduler's
\* admission check included) never keeps the remaining enabled, due configs
\* from being executed in that tick, and never ends the loop.
C25_FaultIsolation ==
    [][ Started =>
          \A t \in 1..Len(engine.threads) :
              /\ (engine.threads[t].pc \in {"admit", "cycle"}
                    /\ engine'.threads[t].pc = "test") =>
                     \A k \in engine.threads[t].k + 1..Len(engine.strategies) :
                         ~Due(engine, k)
              /\ (engine.threads[t].pc # "exited"
                    /\ engine'.threads[t].pc = "exited") => engine.stop_event
      ]_vars

\* C28: start() while running starts no second loop thread and changes no
\* state, stop() while not running changes no state, and neither raises.
C28_StartStopIdempotent ==
    [][ (Started /\ ret' # ret) =>
          /\ (ret'.op = "start" /\ engine.is_running) =>
                 /\ engine' = engine
                 /\ ret'.raised = None
          /\ (ret'.op = "stop" /\ engine.main = "idle" /\ ~engine.is_running) =>
                 /\ engine' = engine
                 /\ ret'.raised = None
      ]_vars

\* start() has been called on a running engine, which still has its one
\* loop thread.
C28_Witness ==
    /\ Started
    /\ ret.op = "start"
    /\ ret.value = "Engine already running"
    /\ engine.is_running
    /\ Len(engine.threads) = 1

\* C29: stop() always returns: it sets the cancellation signal, waits for
\* the loop thread no longer than the join timeout, and returns with
\* is_running = false even if the loop thread has not exited.
C29_StopReturns ==
    /\ [][ (Started /\ engine.is_running /\ ~engine'.is_running) =>
               engine'.stop_event ]_engine
    /\ [](Started => (engine.main = "join" =>
                          /\ engine.joined <= 5
                          /\ ~engine.is_running
                          /\ engine.stop_event))
    /\ [][ (Started /\ engine.main = "join" /\ engine'.main = "idle") =>
               ~engine'.is_running ]_engine
    /\ (Started /\ engine.main = "join") ~> (engine.main = "idle")

\* stop() has returned while the loop thread was still inside a cycle.
C29_Witness ==
    /\ Started
    /\ ret.op = "stop"
    /\ ret.value = "TradingEngine stopped..."
    /\ engine.main = "idle"
    /\ ~engine.is_running
    /\ engine.threads[engine.engine_thread].pc = "cycle"

\* The loop threads that have not returned from _run_loop.
Alive(e) == {t \in 1..Len(e.threads) : e.threads[t].pc # "exited"}

\* C30: whatever the order of the start() and stop() calls, at most one loop
\* thread is alive at any time, so no two cycles run at once - also after
\* stop() returned on its join timeout during a cycle and start() was
\* called again.
C30_OneLoopThread ==
    Started =>
        /\ Cardinality(Alive(engine)) <= 1
        /\ Cardinality({t \in Alive(engine) : engine.threads[t].pc = "cycle"}) <= 1

-----------------------------------------------------------------------------
(* PositionManager.check_position_exit and close_position over several     *)
(* positions of one symbol                                                 *)

\* The outcome the first open Position of the symbol decides by itself.
FirstMatchOutcome(positions, symbol, current_price) ==
    IF Matching(positions, symbol) = {} THEN None
    ELSE LET pos == positions[Min(Matching(positions, symbol))]
         IN  IF RLe(current_price, pos.stop_loss_price) THEN "stop_loss"
             ELSE IF RGe(current_price, pos.take_profit_price) THEN "take_profit"
             ELSE None

\* C32: check_position_exit(symbol, current_price) returns what the first open
\* Position of the symbol decides - stop_loss at or below its stop_loss_price,
\* take_profit at or above its take_profit_price, None otherwise or without a
\* matching Position - and the call leaves open_positions and daily_pnl as
\* they were.
C32_FirstMatchScan ==
    [][(ret'.op = "check_position_exit" /\ owner = "caller")
        => /\ ret'.value = FirstMatchOutcome(open_positions, ret'.args[1],
                                             ret'.args[2])
           /\ open_positions' = open_positions
           /\ daily_pnl' = daily_pnl]_<<open_positions, daily_pnl, ret.op>>

\* The pnl realised by closing, at exit_price, every Position of the symbol.
RECURSIVE RemovedPnl(_, _, _)
RemovedPnl(positions, symbol, exit_price) ==
    IF positions = <<>> THEN Zero
    ELSE RAdd(IF Head(positions).symbol = symbol
              THEN RealisedPnl(Head(positions), exit_price) ELSE Zero,
              RemovedPnl(Tail(positions), symbol, exit_price))

\* C33: daily_pnl is the sum of (exit_price - entry_price) * qty over every
\* Position close_position removed since the last reset_daily_pnl: each
\* close_position call adds the pnl of every Position it removes, several
\* Positions of one symbol included, and open_position adds nothing.
C33_DailyPnlIsSumOfRemoved ==
    [][owner = "caller" =>
         /\ ret'.op = "close_position" =>
                daily_pnl' = RAdd(daily_pnl,
                                  RemovedPnl(open_positions, ret'.args[1],
                                             ret'.args[2]))
         /\ ret'.op = "open_position" => daily_pnl' = daily_pnl
      ]_<<open_positions, daily_pnl, ret.op>>

-----------------------------------------------------------------------------
(* The buy and sell paths of TradingEngine._execute_strategy               *)

\* The cycle the engine runs from the current state on the input in.
CycleFrom(in) ==
    execute_strategy(config, open_positions, daily_pnl, sc, trade_log, in)

\* The quantity get_order_details reconciles for an order of qty.
ReconciledQty(in, qty) == RMul(in.fill.frac, qty)

\* The cycle submitted an order and its fill was reconciled.
Reconciled(in, r) == r.orders # <<>> /\ in.fault # "get_order_details"

\* The cycle registered one Position of qty at the fill price and counted it.
Registers(in, r, qty) ==
    /\ r.positions = Append(open_positions,
                            new_position(config, sc.symbol, in.fill.price, qty,
                                         in.now))
    /\ r.sc.trades_this_session = sc.trades_this_session + 1

\* C34: on a buy signal an order is submitted only if can_open_position is
\* true and the computed position size is > 0; a Position with the reconciled
\* fill price and quantity is registered and trades_this_session incremented
\* if and only if the reconciled filled quantity is > 0, so every Position the
\* engine tracks has qty > 0.
C34_BuyPath ==
    owner = "TradingEngine" =>
        /\ \A i \in 1..Len(open_positions) : RGt(open_positions[i].qty, Zero)
        /\ \A in \in CycleInputs : in.signal = "buy" =>
            \E r \in {CycleFrom(in)} :
                /\ r.orders # <<>> =>
                      /\ Len(r.orders) = 1
                      /\ r.orders[1].side = "buy"
                      /\ can_open_position(config, open_positions, daily_pnl,
                                           in.account)
                      /\ r.orders[1].qty = calculate_position_size(
                                               config, in.account, in.quote.price)
                      /\ RGt(r.orders[1].qty, Zero)
                /\ IF Reconciled(in, r)
                      /\ RGt(ReconciledQty(in, r.orders[1].qty), Zero)
                   THEN Registers(in, r, ReconciledQty(in, r.orders[1].qty))
                   ELSE /\ r.positions = open_positions
                        /\ r.sc.trades_this_session = sc.trades_this_session

\* A buy cycle registered a partially filled order: the tracked quantity is
\* smaller than the ordered one.
C34_Witness ==
    /\ owner = "TradingEngine"
    /\ ret.op = "_execute_strategy"
    /\ Called(ret, "open_position")
    /\ Len(ret.value.orders) = 1
    /\ Len(open_positions) >= 1
    /\ RLt(open_positions[Len(open_positions)].qty, ret.value.orders[1].qty)
    /\ sc.trades_this_session >= 1

\* The three pnl values of a filled sell cycle all equal v, one Trade was
\* logged and the tracked Position is gone.
SellRealises(r, v) ==
    /\ r.pnl = RAdd(daily_pnl, v)
    /\ Len(r.log) = Len(trade_log) + 1
    /\ r.log[Len(r.log)].pnl = v
    /\ r.sc.pnl_this_session = RAdd(sc.pnl_this_session, v)
    /\ r.positions = Tail(open_positions)

\* C35: on a sell signal with no tracked Position no order is submitted; with
\* a tracked Position one closing order for its tracked quantity is submitted
\* and, when it fills, the pnl added to the PositionManager's daily_pnl, the
\* pnl written to the TradeLogger and the pnl added to pnl_this_session are
\* the same value (reconciled exit price - tracked entry price) * quantity,
\* exactly one Trade is logged and the Position is removed.
C35_SellPath ==
    owner = "TradingEngine" =>
        \A in \in CycleInputs : (in.signal = "sell" /\ in.fault = None) =>
            \E r \in {CycleFrom(in)} :
                IF open_positions = <<>> THEN r.orders = <<>>
                ELSE /\ r.orders = <<Order("sell", sc.symbol,
                                           open_positions[1].qty)>>
                     /\ RGt(ReconciledQty(in, open_positions[1].qty), Zero) =>
                          \E q \in {open_positions[1].qty,
                                    ReconciledQty(in, open_positions[1].qty)} :
                              SellRealises(r, RMul(RSub(in.fill.price,
                                                        open_positions[1].entry_price),
                                                   q))

\* The total quantity of the positions.
RECURSIVE TrackedQty(_)
TrackedQty(positions) ==
    IF positions = <<>> THEN Zero
    ELSE RAdd(Head(positions).qty, TrackedQty(Tail(positions)))

\* The signed quantity the cycle's reconciled fills moved: bought is positive,
\* sold negative, an order whose reconciliation raised moved none.
ReconciledDelta(in, r) ==
    IF ~Reconciled(in, r) THEN Zero
    ELSE IF r.orders[1].side = "buy"
    THEN ReconciledQty(in, r.orders[1].qty)
    ELSE RNeg(ReconciledQty(in, r.orders[1].qty))

\* C39: the total quantity open in the config's PositionManager is the sum of
\* the reconciled filled quantities of its buy orders minus that of its sell
\* orders: every cycle changes the tracked quantity by what its order filled,
\* for full, partial and zero fills.
C39_TrackedQtyMatchesFills ==
    owner = "TradingEngine" =>
        \A in \in CycleInputs :
            \E r \in {CycleFrom(in)} :
                TrackedQty(r.positions)
                    = RAdd(TrackedQty(open_positions), ReconciledDelta(in, r))

-----------------------------------------------------------------------------
(* Properties of the registered configs                                    *)

Registered == owner = "TradingEngine.strategies"

\* Every config was registered with a PositionManager of its own.
OwnManagers(reg) ==
    \A j, k \in 1..Len(reg.strategies) :
        j # k => reg.position_manager[j] # reg.position_manager[k]

\* The cycle of config k, from the current state, on the input in.
RegisteredCycle(k, in) ==
    execute_registered(registry, config, trade_log, k, in)

\* The PositionManager config k refers to.
ManagerOf(reg, k) == reg.managers[reg.position_manager[k]]

\* C31: when every config is registered with its own PositionManager, a
\* strategy cycle of one config changes neither another config's
\* StrategyConfig fields (last_run, trades_this_session, pnl_this_session) nor
\* the other config's PositionManager (open positions, daily_pnl).
C31_CycleFrame ==
    (Registered /\ OwnManagers(registry)) =>
        \A k \in 1..Len(registry.strategies), in \in RegistryInputs :
            \E r \in {RegisteredCycle(k, in)} :
                \A j \in 1..Len(registry.strategies) : j # k =>
                    /\ r.registry.strategies[j] = registry.strategies[j]
                    /\ ManagerOf(r.registry, j) = ManagerOf(registry, j)

\* Both configs have traded on their own PositionManagers: the first has a
\* Position open, the second has realised a pnl, and the last cycle was the
\* second's.
C31_Witness ==
    /\ Registered /\ OwnManagers(registry)
    /\ ret.op = "_execute_strategy" /\ ret.args = <<2>>
    /\ Len(ManagerOf(registry, 1).open_positions) = 1
    /\ ManagerOf(registry, 2).daily_pnl # Zero
    /\ registry.strategies[1].trades_this_session = 1
    /\ registry.strategies[2].trades_this_session = 2

\* The signal the next evaluate_signal call of config k returns.
NextSignal(reg, k) == evaluate_signal(reg.strategy[k], 0)

\* The pipeline of config k is in step with its strategy: a Position is open
\* after the buy and until the sell, and none otherwise.
InStep(reg, k) ==
    Len(ManagerOf(reg, k).open_positions)
        = (IF reg.strategy[k].call_count \in {1, 2} THEN 1 ELSE 0)

\* Bars arrive, no call raises, the order of the cycle (if any) is fully
\* filled, and on a buy signal can_open_position is true.
FullyFilled(k, in) ==
    /\ in.bars = "ok" /\ in.fault = None
    /\ in.fill.frac = One
    /\ NextSignal(registry, k) = "buy" =>
          can_open_position(config, ManagerOf(registry, k).open_positions,
                            ManagerOf(registry, k).daily_pnl, in.account)

\* On a buy signal a price is quoted and the position size computed is > 0.
Sized(k, in) ==
    NextSignal(registry, k) = "buy" =>
        /\ in.quote.ok
        /\ RGt(calculate_position_size(config, in.account, in.quote.price), Zero)

\* The cycle of config k on the input in keeps the pipeline in step and
\* counts one trade on a buy and on a sell, none on a hold.
Alternates(k, in) ==
    \E r \in {RegisteredCycle(k, in)} :
        /\ InStep(r.registry, k)
        /\ r.registry.strategy[k] = evaluated(registry.strategy[k])
        /\ r.registry.strategies[k].trades_this_session
             = registry.strategies[k].trades_this_session
               + (IF NextSignal(registry, k) = "hold" THEN 0 ELSE 1)

\* A config that has not traded and whose strategy is at its first signal
\* has no Position open.
StartsInStep(k) ==
    (/\ registry.strategy[k].call_count = 0
     /\ registry.strategies[k].trades_this_session = 0) => InStep(registry, k)

-----------------------------------------------------------------------------
(* Properties of the loop after stop(), of its ticks and of add_strategy   *)

\* C37: after stop() has been called and while no start() has followed (the
\* stop event is set), the scheduling loop begins no new strategy cycle: a
\* loop thread finishes the cycle it is in and executes no further config.
C37_NoNewCycleAfterStop ==
    [][ (Started /\ engine.stop_event /\ engine'.stop_event) =>
          \A t \in 1..Len(engine.threads) :
              ~(engine.threads[t].pc # "cycle" /\ engine'.threads[t].pc = "cycle")
      ]_engine

\* The admission check of the config the thread t is at raises.
AdmissionRaises(e, t) ==
    /\ e.threads[t].pc = "admit"
    /\ e.strategies[e.threads[t].k].enabled
    /\ should_run_strategy(e.strategies[e.threads[t].k].asset_type,
                           e.strategies[e.threads[t].k].last_run,
                           EngineInterval, EngineNow).raised # None

\* C36: an add_strategy call made by another thread during a tick does not
\* make the tick's iteration over the registry fail or skip an enabled, due
\* config: unless an admission check raises, a loop thread leaves the for loop
\* only after the last registered config, with no enabled, due config left.
C36_AddStrategyDuringTick ==
    [][ Started =>
          \A t \in 1..Len(engine.threads) :
              (/\ engine.threads[t].pc \in {"admit", "cycle"}
               /\ engine'.threads[t].pc = "test"
               /\ ~AdmissionRaises(engine, t)) =>
                  \A k \in engine.threads[t].k + 1..Len(engine.strategies) :
                      ~Due(engine, k)
      ]_engine

\* C38: two consecutive executions of a config are at least interval_seconds
\* apart: when a cycle of a config ends, however it ends (completed, aborted
\* on missing data, raised after an order was submitted), the config is not
\* due at that time, so the next tick of the loop does not execute it again.
C38_CyclesAnIntervalApart ==
    [][ Started =>
          \A t \in 1..Len(engine.threads) :
              (engine.threads[t].pc = "cycle" /\ engine'.threads[t].pc # "cycle")
                  => ~Due(engine', engine.threads[t].k)
      ]_engine

=============================================================================
